---- MODULE Spec2Model ----
(***************************************************************************)
(* A model of the two execution engines of wasmly:                         *)
(*   - the continuation engine   (src/src/cont.rs, Instance::run / step)   *)
(*   - the cursor-stack engine   (src/src/main.rs, VM::run / step)         *)
(* A run is one call of run() on one instruction sequence.  Rust slices    *)
(* (&[Instr]) are modelled as what they are, a pointer into the program    *)
(* and a length: [p |-> path of the Vec, s |-> first index, e |-> end].    *)
(* Panics are modelled as the outcome status = "panicked".  Integer        *)
(* overflow is decided by the build profile (overflow_checks).             *)
(*                                                                         *)
(* EquivSpec gives the program of a finished run of the continuation      *)
(* engine to the cursor-stack engine, to compare the two outcomes.         *)
(*                                                                         *)
(* A further specification, CodecSpec, models calls of the pure functions  *)
(* of the binary decoder (src/src/binary/leb128.rs, primitives.rs): Init   *)
(* draws the argument, each action applies one function.  Bytes are the    *)
(* integers 0..255; a u32, i32 or u64 is its bit pattern, the set of the   *)
(* positions of its 1 bits, so that shifts, masks and casts are computed   *)
(* as the code computes them.                                              *)
(***************************************************************************)
EXTENDS Integers, Sequences, FiniteSets, TLC

VARIABLES
    engine,           \* which engine this run uses: "cont" or "vm"
    overflow_checks,  \* build profile: TRUE = debug (overflow panics), FALSE = release (wraps)
    prog,             \* the instrs argument of run()
    types,            \* Instance.types
    locals,           \* Instance.locals / VM.locals
    instr,            \* cont.rs Config.0: the AdminInstr chain, head first, Trap last
    vs,               \* cont.rs Config.1: the operand stack
    ret,              \* the Vec<Val> returned by Instance::run
    stack,            \* main.rs VM.stack
    cursor,           \* main.rs the Vec<Level> instruction cursor
    status,           \* "running", "returned" or "panicked"
    ev,               \* history: what the last step did
    lastBr,           \* history: the last Br executed, with the operand stack right before it
    trapped,          \* history: an Unreachable instruction has been executed
    contRun,          \* history: how Instance::run ended, once the VM is given the same program
    arg,              \* binary: the value handed to an encoder (history once encoded)
    input,            \* binary: the byte slice handed to a decoder or parser
    result,           \* binary: the IResult the last decoder or parser call returned
    call,             \* binary: the function called last, "none" before the first call
    buffer            \* binary: the caller's buffer, of which input is a part

(* the state of an engine run, and the state of a call into the binary module *)
machine == <<engine, overflow_checks, prog, types, locals, instr, vs, ret, stack,
             cursor, status, ev, lastBr, trapped, contRun>>
codec == <<arg, input, result, call, buffer>>

vars == <<engine, overflow_checks, prog, types, locals, instr, vs, ret, stack,
          cursor, status, ev, lastBr, trapped, contRun, arg, input, result, call, buffer>>

----------------------------------------------------------------------------
(* Bounds of the model *)

MaxN == 3
MaxBodyLen == 2
MaxLiveBodyLen == 1
MaxSetBits == 2
MaxInputLen == 6
MaxHeaderLen == 5
MaxSectionLen == 4
MaxLocatedLen == 3
MaxConsumed == 2
MaxBaseLen == 5

(* i32::MAX; i32::MIN is derived from it *)
I32Max == 2147483647
I32Min == (-I32Max) - 1

----------------------------------------------------------------------------
(* types.rs: Ty, BlockType, Val, Instr *)

TyI32 == [tag |-> "I32", args |-> <<>>, res |-> <<>>]
TyFunc(a, r) == [tag |-> "Func", args |-> a, res |-> r]

BtEmpty == [kind |-> "Empty"]
BtIndex(i) == [kind |-> "Index", idx |-> i]
BtValTy(t) == [kind |-> "ValTy", ty |-> t]

ValI32(i) == [ty |-> "I32", v |-> i]
ValI64(i) == [ty |-> "I64", v |-> i]

Unreachable == [op |-> "Unreachable"]
I32Const(i) == [op |-> "I32Const", i |-> i]
I32Add == [op |-> "I32Add"]
I32Eq == [op |-> "I32Eq"]
LocalTee(i) == [op |-> "LocalTee", i |-> i]
LocalGet(i) == [op |-> "LocalGet", i |-> i]
LocalSet(i) == [op |-> "LocalSet", i |-> i]
Br(n) == [op |-> "Br", n |-> n]
If(bt, t, e) == [op |-> "If", bt |-> bt, es_then |-> t, es_else |-> e]
Loop(bt, es) == [op |-> "Loop", bt |-> bt, es |-> es]
Block(bt, es) == [op |-> "Block", bt |-> bt, es |-> es]

(* block_type: the function type a BlockType stands for.  An Index outside  *)
(* the types table panics (BlockTypeInRange is FALSE).                      *)
BlockTypeInRange(tys, bt) == bt.kind = "Index" => bt.idx < Len(tys)

block_type(tys, bt) ==
    CASE bt.kind = "Empty" -> TyFunc(<<>>, <<>>)
      [] bt.kind = "Index" -> tys[bt.idx + 1]
      [] bt.kind = "ValTy" -> TyFunc(<<>>, <<bt.ty>>)

(* Ty::func_tys panics on anything but Ty::Func *)
IsFunc(ty) == ty.tag = "Func"

----------------------------------------------------------------------------
(* Slices of the program *)

ArmOf(e, a) == IF e.op = "If" THEN (IF a = 1 THEN e.es_then ELSE e.es_else) ELSE e.es

RECURSIVE SeqIn(_, _)
SeqIn(top, p) ==
    IF p = <<>> THEN top
    ELSE ArmOf(SeqIn(top, SubSeq(p, 1, Len(p) - 2))[p[Len(p) - 1] + 1], p[Len(p)])

SeqAt(p) == SeqIn(prog, p)

Slice(p, s, e) == [p |-> p, s |-> s, e |-> e]
WholeSlice(p) == Slice(p, 0, Len(SeqAt(p)))
SliceLen(sl) == sl.e - sl.s
SliceAt(sl, j) == SeqAt(sl.p)[sl.s + j + 1]
ArmPath(p, i, a) == p \o <<i, a>>

----------------------------------------------------------------------------
(* cont.rs: AdminInstr *)

Trap == [tag |-> "Trap"]
Plain(es) == [tag |-> "Plain", es |-> es]
(* Label(n, vs, br, k); br is <<>> for None and <<slice>> for Some(slice).  *)
(* src and entry are history fields: the position of the instruction that  *)
(* installed the label and the operand stack it found.                     *)
Label(n, saved, br, src, entry) ==
    [tag |-> "Label", n |-> n, vs |-> saved, br |-> br, src |-> src, entry |-> entry]
Breaking(i, vs1) == [tag |-> "Breaking", i |-> i, vs |-> vs1]

stop_fn(k) == Head(k).tag = "Trap"

----------------------------------------------------------------------------
(* Operand-stack helpers *)

Top(s) == s[Len(s)]
Pop(s) == SubSeq(s, 1, Len(s) - 1)
TakeLast(s, n) == SubSeq(s, Len(s) - n + 1, Len(s))
DropLast(s, n) == SubSeq(s, 1, Len(s) - n)

(* val_i32: v.pop().unwrap() must be a Val::I32, anything else panics *)
CanPopI32(s) == Len(s) > 0 /\ Top(s).ty = "I32"

(* a + b on i32: the mathematical sum leaves the i32 range *)
AddOverflows(a, b) ==
    \/ (a > 0 /\ b > I32Max - a)
    \/ (a < 0 /\ b < I32Min - a)

WrappingAdd_Sub(a, b) == a - b
(* a + b reduced modulo 2^32 to a signed 32-bit value (what a release build computes) *)
WrappingAdd(a, b) ==
    IF a > 0 /\ b > I32Max - a THEN ((a - I32Max) - 1) + ((b - I32Max) - 1)
    ELSE IF a < 0 /\ b < I32Min - a THEN (a - I32Min) + (b - I32Min)
    ELSE a + b

EqVal(a, b) == IF a = b THEN 1 ELSE 0

----------------------------------------------------------------------------
(* cont.rs Instance::step.  A step result is the next Config and locals,   *)
(* or a panic.                                                             *)

Ok(i, v, l) == [st |-> "running", instr |-> i, vs |-> v, locals |-> l, msg |-> ""]
Panicked(m) == [st |-> "panicked", instr |-> instr, vs |-> vs, locals |-> locals, msg |-> m]

(* vs.drain(..vs.len()-n_args): the label keeps the lower part, the body    *)
(* starts on the top n_args values                                         *)
Drained_KeepArgs(s, n_args) == s
Drained(s, n_args) == DropLast(s, n_args)
Remaining(s, n_args) == TakeLast(s, n_args)

(* lines 134-138: the body of a label has run to its end *)
LabelExit_Swapped(vs2, cur) == cur \o vs2
LabelExit(vs2, cur) == vs2 \o cur

(* line 143: vs2.extend_from_slice(&vs1[vs1.len()-n..]) *)
BranchArgs_Bottom(vs1, n) == SubSeq(vs1, 1, n)
BranchArgs(vs1, n) == TakeLast(vs1, n)

(* lines 145-148: where a completed branch resumes *)
LabelResume_Forget(br, k) == k
LabelResume_SkipOne(br, k) ==
    IF br = <<>> THEN (IF Len(k) > 1 THEN Tail(k) ELSE k) ELSE <<Plain(br[1])>> \o k
LabelResume(br, k) == IF br = <<>> THEN k ELSE <<Plain(br[1])>> \o k

(* lines 104-108: if i != 0 the then arm (1), otherwise the else arm (2) *)
SelectArm_Swapped(i) == IF i # 0 THEN 2 ELSE 1
SelectArm(i) == IF i # 0 THEN 1 ELSE 2

(* lines 95-129: If, Loop and Block install a label and enter a body *)
StepControl(e, es, k, cur) ==
    IF ~BlockTypeInRange(types, e.bt) THEN Panicked("index out of bounds")
    ELSE IF ~IsFunc(block_type(types, e.bt)) THEN Panicked("not a function type")
    ELSE
      LET ty == block_type(types, e.bt)
          n_args == Len(ty.args)
          n_res == Len(ty.res)
          src == [p |-> es.p, i |-> es.s]
      IN
      CASE e.op = "If" ->
             IF ~CanPopI32(cur) THEN Panicked("type mismatch")
             ELSE
               LET i == Top(cur).v
                   rest == Pop(cur)
                   arm == SelectArm(i)
               IN
               IF n_args > Len(rest) THEN Panicked("attempt to subtract with overflow")
               ELSE Ok(<<Plain(WholeSlice(ArmPath(es.p, es.s, arm))),
                         Label(n_res, Drained(rest, n_args), <<>>, src, rest)>> \o k,
                       Remaining(rest, n_args), locals)
        [] e.op = "Loop" ->
             IF n_args > Len(cur) THEN Panicked("attempt to subtract with overflow")
             ELSE Ok(<<Plain(WholeSlice(ArmPath(es.p, es.s, 1))),
                       Label(n_args, Drained(cur, n_args), <<Slice(es.p, es.s, es.s + 1)>>, src, cur)>> \o k,
                     Remaining(cur, n_args), locals)
        [] e.op = "Block" ->
             IF n_args > Len(cur) THEN Panicked("attempt to subtract with overflow")
             ELSE Ok(<<Plain(WholeSlice(ArmPath(es.p, es.s, 1))),
                       Label(n_res, Drained(cur, n_args), <<>>, src, cur)>> \o k,
                     Remaining(cur, n_args), locals)

(* lines 88-89: self.locals[*i] = v *)
SetLocal_All(l, i, v) == [j \in 1..Len(l) |-> v]
SetLocal(l, i, v) == [l EXCEPT ![i + 1] = v]

(* lines 62-133: Plain(es, k) *)
StepPlain(es, k0) ==
    IF SliceLen(es) = 0 THEN Ok(k0, vs, locals)
    ELSE
      LET e == SliceAt(es, 0)
          es_next == Slice(es.p, es.s + 1, es.e)
          k == IF SliceLen(es_next) # 0 THEN <<Plain(es_next)>> \o k0 ELSE k0
      IN
      CASE e.op = "Unreachable" -> Ok(<<Trap>>, vs, locals)
        [] e.op = "I32Const" -> Ok(k, Append(vs, ValI32(e.i)), locals)
        [] e.op = "I32Add" ->
             IF ~(CanPopI32(vs) /\ CanPopI32(Pop(vs))) THEN Panicked("type mismatch")
             ELSE
               LET a == Top(vs).v
                   b == Top(Pop(vs)).v
               IN
               IF AddOverflows(a, b) /\ overflow_checks
               THEN Panicked("attempt to add with overflow")
               ELSE Ok(k, Append(Pop(Pop(vs)), ValI32(WrappingAdd(a, b))), locals)
        [] e.op = "I32Eq" ->
             IF ~(CanPopI32(vs) /\ CanPopI32(Pop(vs))) THEN Panicked("type mismatch")
             ELSE Ok(k, Append(Pop(Pop(vs)), ValI32(EqVal(Top(vs).v, Top(Pop(vs)).v))), locals)
        [] e.op = "LocalTee" ->
             IF Len(vs) = 0 \/ e.i >= Len(locals) THEN Panicked("unwrap on None or index out of bounds")
             ELSE Ok(k, vs, SetLocal(locals, e.i, Top(vs)))
        [] e.op = "LocalSet" ->
             IF Len(vs) = 0 \/ e.i >= Len(locals) THEN Panicked("unwrap on None or index out of bounds")
             ELSE Ok(k, Pop(vs), SetLocal(locals, e.i, Top(vs)))
        [] e.op = "LocalGet" ->
             IF e.i >= Len(locals) THEN Panicked("index out of bounds")
             ELSE Ok(k, Append(vs, locals[e.i + 1]), locals)
        [] e.op = "Br" -> Ok(<<Breaking(e.n, vs)>> \o k, <<>>, locals)
        [] e.op \in {"If", "Loop", "Block"} -> StepControl(e, es, k, vs)

(* lines 139-154: Breaking(i, vs1, k) *)
StepBreaking(i, vs1, k0) ==
    LET h == Head(k0)
        k == Tail(k0)
    IN
    CASE h.tag = "Plain" -> Ok(<<Breaking(i, vs1)>> \o k, vs, locals)
      [] h.tag = "Label" ->
           IF i = 0
           THEN IF h.n > Len(vs1) THEN Panicked("attempt to subtract with overflow")
                ELSE Ok(LabelResume(h.br, k), h.vs \o BranchArgs(vs1, h.n), locals)
           ELSE Ok(<<Breaking(i - 1, vs1)>> \o k, vs, locals)
      [] OTHER -> Panicked("unreachable")

step ==
    LET h == Head(instr)
        k == Tail(instr)
    IN
    CASE h.tag = "Plain" -> StepPlain(h.es, k)
      [] h.tag = "Label" -> Ok(k, LabelExit(h.vs, vs), locals)
      [] h.tag = "Breaking" -> StepBreaking(h.i, h.vs, k)
      [] OTHER -> Panicked("unreachable")

----------------------------------------------------------------------------
(* main.rs: StackItem, Label, Level and the InstrCursor of Vec<Level> *)

ItemVal(v) == [item |-> "Val", val |-> v]
(* Label::Empty(n, pos) / Label::Continuation(n, pos) *)
ItemLabel(kind, n, pos) == [item |-> "Label", kind |-> kind, n |-> n, pos |-> pos]

(* Level::new *)
Level(p) == [cur |-> 0, len |-> Len(SeqAt(p)), instrs |-> p]

(* InstrCursor::pos *)
CursorPos(c) == [j \in 1..Len(c) |-> c[j].cur]

(* InstrCursor::next *)
RECURSIVE CursorNext(_)
CursorNext(c) ==
    IF c = <<>> THEN c
    ELSE LET r == [Top(c) EXCEPT !.cur = @ + 1]
         IN IF r.cur = r.len THEN CursorNext(Pop(c)) ELSE Append(Pop(c), r)

(* InstrCursor::seek, lines 153-158: the first level whose cur differs from *)
(* pos; reading pos[i] past its end panics                                  *)
SeekDiffs(c, pos) == {j \in 1..Len(c) : j > Len(pos) \/ c[j].cur # pos[j]}
SeekFirstDiff(c, pos) == CHOOSE j \in SeekDiffs(c, pos) : \A m \in SeekDiffs(c, pos) : j <= m

(* InstrCursor::seek: [ok, cursor]; ok = FALSE is a panic *)
Seek(c, pos) ==
    LET diffs == SeekDiffs(c, pos)
        cut == IF diffs = {} THEN c ELSE SubSeq(c, 1, SeekFirstDiff(c, pos) - 1)
    IN
    IF diffs # {} /\ SeekFirstDiff(c, pos) > Len(pos) THEN [ok |-> FALSE, cursor |-> c]
    ELSE IF Len(cut) > Len(pos) THEN [ok |-> FALSE, cursor |-> c]
    ELSE IF Len(cut) < Len(pos) THEN [ok |-> FALSE, cursor |-> c]
    ELSE [ok |-> TRUE, cursor |-> cut]

(* n_func_rets *)
n_func_rets(ty) == Len(ty.res)

(* VM::pop_label, lines 305-313: the stack indices of the label markers, top-down *)
RECURSIVE LabelIndices(_, _)
LabelIndices(st, j) ==
    IF j = 0 THEN <<>>
    ELSE IF st[j].item = "Label" THEN <<j>> \o LabelIndices(st, j - 1)
    ELSE LabelIndices(st, j - 1)

VmOk(st, c, l) == [st |-> "running", stack |-> st, cursor |-> c, locals |-> l, msg |-> ""]
VmPanicked(m) == [st |-> "panicked", stack |-> stack, cursor |-> cursor, locals |-> locals, msg |-> m]

(* VM::pop_label: [ok, label, vals, stack] *)
pop_label(st, n) ==
    LET ls == LabelIndices(st, Len(st))
        bad == [ok |-> FALSE, label |-> ItemLabel("Empty", 0, <<>>), vals |-> <<>>, stack |-> st]
    IN
    IF Len(ls) <= n THEN bad                   \* i_lbl.unwrap() on None
    ELSE IF overflow_checks THEN bad           \* n_labels -= 1 at 0: subtract with overflow
    ELSE
      LET i_lbl == ls[n + 1]
          n_vals == st[i_lbl].n
      IN
      IF n_vals > Len(st) THEN bad             \* self.stack.len()-n_vals
      ELSE IF \E j \in (Len(st) - n_vals + 1)..Len(st) : st[j].item # "Val" THEN bad
      ELSE IF i_lbl > Len(st) - n_vals THEN bad
      ELSE [ok |-> TRUE, label |-> st[i_lbl],
            vals |-> TakeLast(st, n_vals),
            stack |-> SubSeq(st, 1, i_lbl - 1)]

(* pop_i32: self.pop() must be StackItem::Val(Val::I32) *)
VmCanPopI32(st) == Len(st) > 0 /\ Top(st).item = "Val" /\ Top(st).val.ty = "I32"

(* VM::step, lines 246-265: Loop, Block and If push a label marker and a level *)
VmStepControl(e, arm, kind, st) ==
    IF ~IsFunc(e.bt) THEN VmPanicked("impossible")
    ELSE VmOk(Append(st, ItemLabel(kind, n_func_rets(e.bt), CursorPos(cursor))),
              Append(cursor, Level(ArmPath(Top(cursor).instrs, Top(cursor).cur, arm))),
              locals)

(* VM::step, lines 232-245: Br *)
VmStepBr(n) ==
    LET r == pop_label(stack, n) IN
    IF ~r.ok THEN VmPanicked("pop_label")
    ELSE
      LET st == r.stack \o r.vals
          sk == Seek(cursor, r.label.pos)
      IN
      IF ~sk.ok THEN VmPanicked("seek")
      ELSE IF r.label.kind = "Empty" THEN VmOk(st, CursorNext(sk.cursor), locals)
      ELSE VmOk(st, sk.cursor, locals)

(* VM::step *)
vm_step(e) ==
    CASE e.op = "Unreachable" -> VmOk(stack, CursorNext(cursor), locals)
      [] e.op = "I32Const" -> VmOk(Append(stack, ItemVal(ValI32(e.i))), CursorNext(cursor), locals)
      [] e.op = "I32Add" ->
           IF ~(VmCanPopI32(stack) /\ VmCanPopI32(Pop(stack))) THEN VmPanicked("pop_i32")
           ELSE
             LET i1 == Top(stack).val.v
                 i2 == Top(Pop(stack)).val.v
             IN
             IF AddOverflows(i1, i2) /\ overflow_checks
             THEN VmPanicked("attempt to add with overflow")
             ELSE VmOk(Append(Pop(Pop(stack)), ItemVal(ValI32(WrappingAdd(i1, i2)))),
                       CursorNext(cursor), locals)
      [] e.op = "I32Eq" ->
           IF ~(VmCanPopI32(stack) /\ VmCanPopI32(Pop(stack))) THEN VmPanicked("pop_i32")
           ELSE VmOk(Append(Pop(Pop(stack)),
                            ItemVal(ValI32(EqVal(Top(stack).val.v, Top(Pop(stack)).val.v)))),
                     CursorNext(cursor), locals)
      [] e.op = "LocalTee" ->
           IF Len(stack) = 0 \/ Top(stack).item # "Val" \/ e.i >= Len(locals)
           THEN VmPanicked("impossible or index out of bounds")
           ELSE VmOk(stack, CursorNext(cursor), [locals EXCEPT ![e.i + 1] = Top(stack).val])
      [] e.op = "LocalGet" ->
           IF e.i >= Len(locals) THEN VmPanicked("index out of bounds")
           ELSE VmOk(Append(stack, ItemVal(locals[e.i + 1])), CursorNext(cursor), locals)
      [] e.op = "Br" -> VmStepBr(e.n)
      [] e.op = "Loop" -> VmStepControl(e, 1, "Continuation", stack)
      [] e.op = "Block" -> VmStepControl(e, 1, "Empty", stack)
      [] e.op = "If" ->
           IF ~VmCanPopI32(stack) THEN VmPanicked("pop_i32")
           ELSE VmStepControl(e, IF Top(stack).val.v # 0 THEN 1 ELSE 2, "Empty", Pop(stack))

----------------------------------------------------------------------------
(* binary: machine words as bit patterns *)

(* the bit pattern of n, 0 <= n <= i32::MAX *)
Bits(n) == {b \in 0..30 : (n \div (2 ^ b)) % 2 = 1}

(* the bit pattern of the i32 n (two's complement) *)
I32Bits(n) == IF n >= 0 THEN Bits(n) ELSE Bits(n - I32Min) \cup {31}

(* the number a bit pattern of a byte stands for *)
RECURSIVE BitsValue(_)
BitsValue(bits) ==
    IF bits = {} THEN 0
    ELSE LET b == CHOOSE x \in bits : TRUE IN (2 ^ b) + BitsValue(bits \ {b})

(* x << shift and x >> shift on a word of the given width; !0 *)
Shl(bits, shift, width) == {b + shift : b \in bits} \cap (0..(width - 1))
Shr(bits, shift) == {b - shift : b \in {x \in bits : x >= shift}}
AllOnes(width) == 0..(width - 1)

(* value as u64 of an i32 (sign-extends), result as i32 of a u64 (truncates), *)
(* (v & 0x7F) as u8                                                         *)
I32AsU64(bits) == IF 31 \in bits THEN bits \cup (32..63) ELSE bits
U64AsI32(bits) == bits \cap (0..31)
Low7AsU8(bits) == BitsValue(bits \cap (0..6))

(* byte & 0x7F *)
Low7_Keep8(byte) == byte
Low7(byte) == byte % 128

(* byte & 0x80 == 0: the byte ends the encoding *)
IsLast_Bit6(byte) == (byte \div 64) % 2 = 0
IsLast(byte) == byte < 128

(* byte & 0x40 != 0 *)
SignBitSet(byte) == (byte \div 64) % 2 = 1

(* shift >= 32 *)
ShiftLimitReached_Early(shift) == shift >= 28
ShiftLimitReached(shift) == shift >= 32

(* nom::IResult: Ok((remaining, value)) and Err(nom::Err::Error(Error { input, code })) *)
NomOk(remaining, value) == [ok |-> TRUE, remaining |-> remaining, value |-> value]
NomErr(inp, code) == [ok |-> FALSE, input |-> inp, code |-> code]

----------------------------------------------------------------------------
(* binary/leb128.rs *)

(* decode_u32, the loop of lines 8-33 *)
RECURSIVE decode_u32_loop(_, _, _, _)
decode_u32_loop(inp, remaining, res, shift) ==
    IF remaining = <<>> THEN NomErr(inp, "Eof")
    ELSE
      LET byte == Head(remaining)
          rest == Tail(remaining)
          value == Low7(byte)
          res2 == res \cup Shl(Bits(value), shift, 32)
      IN
      IF IsLast(byte) THEN NomOk(rest, res2)
      ELSE IF ShiftLimitReached(shift + 7) THEN NomErr(inp, "TooLarge")
      ELSE decode_u32_loop(inp, rest, res2, shift + 7)

decode_u32(inp) == decode_u32_loop(inp, inp, {}, 0)

(* decode_i32, the loop of lines 41-71; result is a u64 *)
RECURSIVE decode_i32_loop(_, _, _, _)
decode_i32_loop(inp, remaining, res, shift) ==
    IF remaining = <<>> THEN NomErr(inp, "Eof")
    ELSE
      LET byte == Head(remaining)
          rest == Tail(remaining)
          value == Low7(byte)
          res2 == res \cup Shl(Bits(value), shift, 64)
      IN
      IF IsLast(byte)
      THEN IF SignBitSet(byte)
           THEN NomOk(rest, U64AsI32(res2 \cup Shl(AllOnes(64), shift, 64)))
           ELSE NomOk(rest, U64AsI32(res2))
      ELSE IF ShiftLimitReached(shift + 7) THEN NomErr(inp, "TooLarge")
      ELSE decode_i32_loop(inp, rest, res2, shift + 7)

decode_i32(inp) == decode_i32_loop(inp, inp, {}, 0)

(* encode_u32, the loop of lines 78-89 *)
RECURSIVE encode_u32_loop(_, _)
encode_u32_loop(res, v0) ==
    LET byte == Low7AsU8(v0)
        v == Shr(v0, 7)
    IN
    IF v = {} THEN Append(res, byte)
    ELSE encode_u32_loop(Append(res, byte + 128), v)

encode_u32(value) == encode_u32_loop(<<>>, value)

(* encode_i32, the loop of lines 98-109; v is a u64 and v >>= 7 shifts in zeros *)
RECURSIVE encode_i32_loop(_, _)
encode_i32_loop(res, v0) ==
    LET byte == Low7AsU8(v0)
        v == Shr(v0, 7)
    IN
    IF (v = {} /\ ~SignBitSet(byte)) \/ (v = AllOnes(64) /\ SignBitSet(byte))
    THEN Append(res, byte)
    ELSE encode_i32_loop(Append(res, byte + 128), v)

encode_i32(value) == encode_i32_loop(<<>>, I32AsU64(value))

----------------------------------------------------------------------------
(* binary/primitives.rs *)

(* nom::bytes::complete::take(n): [ok, remaining, bytes] *)
take_Peek(n, inp) ==
    IF Len(inp) < n THEN [ok |-> FALSE, remaining |-> inp, bytes |-> <<>>]
    ELSE [ok |-> TRUE, remaining |-> inp, bytes |-> SubSeq(inp, 1, n)]
take(n, inp) ==
    IF Len(inp) < n THEN [ok |-> FALSE, remaining |-> inp, bytes |-> <<>>]
    ELSE [ok |-> TRUE, remaining |-> SubSeq(inp, n + 1, Len(inp)), bytes |-> SubSeq(inp, 1, n)]

(* SourceLocation::new, Located::new *)
SourceLocation(offset, length) == [offset |-> offset, length |-> length]
Located(value, location) == [value |-> value, location |-> location]

(* the 4 bytes a module starts with, and its version *)
Magic == <<0, 97, 115, 109>>
Version == <<1, 0, 0, 0>>

parse_magic(inp) ==
    LET t == take(4, inp) IN
    IF ~t.ok THEN NomErr(inp, "Eof")
    ELSE IF t.bytes # Magic THEN NomErr(inp, "Tag")
    ELSE NomOk(t.remaining, Located(t.bytes, SourceLocation(0, 4)))

parse_version(inp) ==
    LET t == take(4, inp) IN
    IF ~t.ok THEN NomErr(inp, "Eof")
    ELSE IF t.bytes # Version THEN NomErr(inp, "Verify")
    ELSE NomOk(t.remaining, Located(t.bytes, SourceLocation(0, 4)))

(* a call that unwinds instead of returning an IResult *)
Panic(inp) == [ok |-> FALSE, input |-> inp, code |-> "panicked"]
Unwinds(r) == ~r.ok /\ r.code = "panicked"

(* let (remaining, x) = r?; K: r is evaluated once, and what is not Ok is   *)
(* handed to the caller as it is                                            *)
Try(r, K(_)) == CHOOSE y \in {IF x.ok THEN K(x) ELSE x : x \in {r}} : TRUE

(* parse_byte: take(1usize)(input)?, located at offset 0 of its input *)
parse_byte(inp) ==
    LET t == take(1, inp) IN
    IF ~t.ok THEN NomErr(inp, "Eof")
    ELSE NomOk(t.remaining, Located(t.bytes[1], SourceLocation(0, 1)))

(* length.value as usize, for the lengths a slice of the model can be       *)
(* compared with: a u32 of 2^31 or more is longer than any of them          *)
AsUsize(bits) == IF bits \subseteq 0..30 THEN BitsValue(bits) ELSE I32Max

(* the private parse_leb128_u32: the loop of lines 89-111 (primitives.rs)   *)
(* and 282-304 (sections.rs), the same code; take(1usize)(remaining)? fails *)
(* with the slice it was given                                              *)
RECURSIVE parse_leb128_u32_loop(_, _, _, _, _)
parse_leb128_u32_loop(base, remaining, res, shift, bytes_consumed) ==
    LET t == take(1, remaining) IN
    IF ~t.ok THEN NomErr(remaining, "Eof")
    ELSE
      LET byte == t.bytes[1]
          value == Low7(byte)
          res2 == res \cup Shl(Bits(value), shift, 32)
      IN
      IF IsLast(byte)
      THEN NomOk(t.remaining, Located(res2, SourceLocation(0, bytes_consumed + 1)))
      ELSE IF ShiftLimitReached(shift + 7) THEN NomErr(base, "TooLarge")
      ELSE parse_leb128_u32_loop(base, t.remaining, res2, shift + 7, bytes_consumed + 1)

parse_leb128_u32(inp) == parse_leb128_u32_loop(inp, inp, {}, 0, 0)

(* parse_section_header: the id byte, then the length, whose location is    *)
(* rebuilt with offset 1                                                    *)
parse_section_header(inp) ==
    Try(parse_byte(inp), LAMBDA id :
    Try(parse_leb128_u32(id.remaining), LAMBDA length :
      NomOk(length.remaining,
            <<id.value,
              Located(length.value.value,
                      SourceLocation(1, length.value.location.length))>>)))

----------------------------------------------------------------------------
(* binary/error.rs *)

(* SourceLocation::from_slice(base, slice) *)
from_slice(base, slice) ==
    LET offset == Len(base) - Len(slice)
        length == Len(slice)
    IN SourceLocation(offset, length)

(* with_location(parser) and capture_location(parser), applied to the      *)
(* result r of parser(input): the value is located at the number of bytes  *)
(* consumed, with length 0                                                  *)
with_location(inp, r) ==
    Try(r, LAMBDA parsed :
      LET offset == Len(inp) - Len(parsed.remaining)
      IN NomOk(parsed.remaining, Located(parsed.value, SourceLocation(offset, 0))))

----------------------------------------------------------------------------
(* binary/sections.rs *)

(* types.rs FuncType, Limits (max is an Option), TableType, MemType *)
FuncType(params, results) == [params |-> params, results |-> results]
None == [some |-> FALSE]
Some(v) == [some |-> TRUE, v |-> v]
Limits(min, max) == [min |-> min, max |-> max]
TableType(limits, elem_type) == [limits |-> limits, elem_type |-> elem_type]
MemType(limits) == [limits |-> limits]

(* module.rs Expr and Code *)
Expr(instrs) == [instrs |-> instrs]
Code(locals_, body) == [locals |-> locals_, body |-> body]

(* the instructions parse_instructions builds that the engines do not run; *)
(* decoded immediates are bit patterns                                      *)
Nop == [op |-> "Nop"]
Drop == [op |-> "Drop"]
I32Sub == [op |-> "I32Sub"]
I32Mul == [op |-> "I32Mul"]

(* the match of parse_valtype, lines 37-51; a ValType or RefType is the   *)
(* name of its variant                                                      *)
IsValTypeByte(b) == b \in {127, 126, 125, 124, 123, 112, 111}
ValTypeOfByte(b) ==
    CASE b = 127 -> "I32"
      [] b = 126 -> "I64"
      [] b = 125 -> "F32"
      [] b = 124 -> "F64"
      [] b = 123 -> "V128"
      [] b = 112 -> "FuncRef"
      [] b = 111 -> "ExternRef"

parse_valtype(inp) ==
    Try(parse_byte(inp), LAMBDA byte :
      IF ~IsValTypeByte(byte.value.value) THEN NomErr(inp, "Tag")
      ELSE NomOk(byte.remaining, ValTypeOfByte(byte.value.value)))

(* the match of parse_reftype, lines 59-68 *)
IsRefTypeByte_AnyValType(b) == IsValTypeByte(b)
IsRefTypeByte(b) == b \in {112, 111}

parse_reftype(inp) ==
    Try(parse_byte(inp), LAMBDA byte :
      IF ~IsRefTypeByte(byte.value.value) THEN NomErr(inp, "Tag")
      ELSE NomOk(byte.remaining, ValTypeOfByte(byte.value.value)))

(* parse_vec(input, parser); the parser is named by the function passed *)
RECURSIVE parse_vec(_, _)

(* FuncType { params, results } of line 92 *)
MkFuncType(params, results) == FuncType(params, results)

parse_functype(inp) ==
    Try(parse_byte(inp), LAMBDA byte :
      IF byte.value.value # 96 THEN NomErr(inp, "Tag")
      ELSE
        Try(parse_vec("parse_valtype", byte.remaining), LAMBDA params :
        Try(parse_vec("parse_valtype", params.remaining), LAMBDA results :
          NomOk(results.remaining, MkFuncType(params.value, results.value)))))

parse_type_section(inp) == parse_vec("parse_functype", inp)

(* the closure of parse_function_section, lines 106-109 *)
parse_typeidx(inp) ==
    Try(parse_leb128_u32(inp), LAMBDA typeidx :
      NomOk(typeidx.remaining, typeidx.value.value))

parse_function_section(inp) == parse_vec("parse_typeidx", inp)

parse_limits(inp) ==
    Try(parse_byte(inp), LAMBDA flags :
    Try(parse_leb128_u32(flags.remaining), LAMBDA min :
      IF flags.value.value = 0
      THEN NomOk(min.remaining, Limits(min.value.value, None))
      ELSE IF flags.value.value = 1
      THEN Try(parse_leb128_u32(min.remaining), LAMBDA max :
             NomOk(max.remaining, Limits(min.value.value, Some(max.value.value))))
      ELSE NomErr(inp, "Tag")))

parse_tabletype(inp) ==
    Try(parse_reftype(inp), LAMBDA elem_type :
    Try(parse_limits(elem_type.remaining), LAMBDA limits :
      NomOk(limits.remaining, TableType(limits.value, elem_type.value))))

parse_memtype(inp) ==
    Try(parse_limits(inp), LAMBDA limits :
      NomOk(limits.remaining, MemType(limits.value)))

(* parse_locals: vec![valtype; count.value as usize] *)
parse_locals(inp) ==
    Try(parse_leb128_u32(inp), LAMBDA count :
    Try(parse_valtype(count.remaining), LAMBDA valtype :
      NomOk(valtype.remaining, [j \in 1..AsUsize(count.value.value) |-> valtype.value])))

(* result |= !0 << (shift + 7) on an i32, line 325: a shift by 32 or more   *)
(* panics under overflow checks and is taken modulo 32 without them         *)
SignFill(shift) == Shl(AllOnes(32), shift % 32, 32)

(* parse_leb128_i32, the loop of lines 314-341; result is an i32 *)
RECURSIVE parse_leb128_i32_loop(_, _, _, _, _)
parse_leb128_i32_loop(base, remaining, res, shift, bytes_consumed) ==
    LET t == take(1, remaining) IN
    IF ~t.ok THEN NomErr(remaining, "Eof")
    ELSE
      LET byte == t.bytes[1]
          value == Low7(byte)
          res2 == res \cup Shl(Bits(value), shift, 32)
          location == SourceLocation(0, bytes_consumed + 1)
      IN
      IF IsLast(byte)
      THEN IF shift < 32 /\ SignBitSet(byte)
           THEN IF shift + 7 >= 32 /\ overflow_checks
                THEN Panic(remaining)
                ELSE NomOk(t.remaining, Located(res2 \cup SignFill(shift + 7), location))
           ELSE NomOk(t.remaining, Located(res2, location))
      ELSE IF ShiftLimitReached(shift + 7) THEN NomErr(base, "TooLarge")
      ELSE parse_leb128_i32_loop(base, t.remaining, res2, shift + 7, bytes_consumed + 1)

parse_leb128_i32(inp) == parse_leb128_i32_loop(inp, inp, {}, 0, 0)

(* parse_instructions, the loop of lines 183-235; the error of an opcode    *)
(* outside the match carries input, the slice the function was called with *)
RECURSIVE parse_instructions_loop(_, _, _)
parse_instructions_loop(inp, remaining, instrs) ==
    Try(parse_byte(remaining), LAMBDA opcode :
      LET op == opcode.value.value
          rest == opcode.remaining
      IN
      CASE op = 11 -> NomOk(rest, instrs)
        [] op = 1 -> parse_instructions_loop(inp, rest, Append(instrs, Nop))
        [] op = 26 -> parse_instructions_loop(inp, rest, Append(instrs, Drop))
        [] op = 32 ->
             Try(parse_leb128_u32(rest), LAMBDA idx :
               parse_instructions_loop(inp, idx.remaining,
                                       Append(instrs, LocalGet(idx.value.value))))
        [] op = 33 ->
             Try(parse_leb128_u32(rest), LAMBDA idx :
               parse_instructions_loop(inp, idx.remaining,
                                       Append(instrs, LocalSet(idx.value.value))))
        [] op = 65 ->
             Try(parse_leb128_i32(rest), LAMBDA value :
               parse_instructions_loop(inp, value.remaining,
                                       Append(instrs, I32Const(value.value.value))))
        [] op = 106 -> parse_instructions_loop(inp, rest, Append(instrs, I32Add))
        [] op = 107 -> parse_instructions_loop(inp, rest, Append(instrs, I32Sub))
        [] op = 108 -> parse_instructions_loop(inp, rest, Append(instrs, I32Mul))
        [] OTHER -> NomErr(inp, "Tag"))

parse_instructions(inp) == parse_instructions_loop(inp, inp, <<>>)

parse_expr(inp) ==
    Try(parse_instructions(inp), LAMBDA instrs :
      NomOk(instrs.remaining, Expr(instrs.value)))

(* locals_vec.into_iter().flatten().collect() *)
RECURSIVE Flatten(_)
Flatten(vecs) == IF vecs = <<>> THEN <<>> ELSE Head(vecs) \o Flatten(Tail(vecs))

(* take(size_val)(remaining)? of parse_code, line 252 *)
take_code_bytes(n, remaining) ==
    LET t == take(n, remaining) IN
    IF ~t.ok THEN NomErr(remaining, "Eof") ELSE NomOk(t.remaining, t.bytes)

(* parse_code: the size, take(size_val), the locals and the body inside     *)
(* code_bytes; what parse_expr leaves of code_bytes is dropped (line 261)   *)
parse_code(inp) ==
    Try(parse_leb128_u32(inp), LAMBDA size :
    Try(take_code_bytes(AsUsize(size.value.value), size.remaining), LAMBDA code_bytes :
    Try(parse_vec("parse_locals", code_bytes.value), LAMBDA locals_vec :
    Try(parse_expr(locals_vec.remaining), LAMBDA body :
      NomOk(code_bytes.remaining, Code(Flatten(locals_vec.value), body.value))))))

(* parser(remaining) of line 22, for the parsers parse_vec is called with *)
parse_element(parser, inp) ==
    CASE parser = "parse_valtype" -> parse_valtype(inp)
      [] parser = "parse_functype" -> parse_functype(inp)
      [] parser = "parse_typeidx" -> parse_typeidx(inp)
      [] parser = "parse_locals" -> parse_locals(inp)
      [] parser = "parse_code" -> parse_code(inp)

(* the loop of parse_vec, lines 21-25 *)
RECURSIVE parse_vec_loop(_, _, _, _)
parse_vec_loop(parser, remaining, todo, elements) ==
    IF todo = 0 THEN NomOk(remaining, elements)
    ELSE
      Try(parse_element(parser, remaining), LAMBDA element :
        parse_vec_loop(parser, element.remaining, todo - 1,
                       Append(elements, element.value)))

parse_vec(parser, inp) ==
    Try(parse_leb128_u32(inp), LAMBDA length :
      parse_vec_loop(parser, length.remaining, AsUsize(length.value.value), <<>>))

parse_code_section(inp) == parse_vec("parse_code", inp)

(* no encoder argument, no call made yet *)
NoArg == [ty |-> "none", bits |-> {}]
NoResult == NomErr(<<>>, "NotCalled")

----------------------------------------------------------------------------
(* The inputs of a run: programs, types table, locals, build profile *)

(* Instance.types as a caller sets it: [I32] -> [I32], [I32] -> [], and a   *)
(* non-function entry                                                       *)
TypesTable == <<TyFunc(<<TyI32>>, <<TyI32>>), TyFunc(<<TyI32>>, <<>>), TyI32>>

(* cont.rs tests::test, tests::test_block, tests::test_loop *)
TestAdd == <<I32Const(1), I32Const(1), I32Add>>
TestBlock == <<Block(BtValTy(TyI32), <<I32Const(1), I32Const(1), I32Add>>)>>
CountedLoop(N) ==
    <<Block(BtEmpty, <<
        Loop(BtEmpty, <<
            LocalGet(0), I32Const(1), I32Add, LocalTee(0), I32Const(N), I32Eq,
            If(BtEmpty, <<Br(2)>>, <<Br(1)>>)
        >>)
      >>),
      LocalGet(0)>>
CountedNs == (1..MaxN) \cup {20}

(* main.rs tests::test_block, tests::test_loop *)
VmTestBlock == <<Block(TyFunc(<<>>, <<TyI32>>), <<I32Const(1), I32Const(1), I32Add>>)>>
VmTestLoop ==
    <<Block(TyFunc(<<>>, <<TyI32>>), <<
        I32Const(1),
        Loop(TyFunc(<<TyI32>>, <<>>), <<
            I32Const(1), I32Add, I32Const(3), I32Eq,
            If(TyFunc(<<>>, <<>>), <<Br(1)>>, <<Br(0)>>)
        >>)
      >>)>>

LoopForever == <<Loop(BtEmpty, <<Br(0)>>)>>

(* a Br n out of an If nested in two blocks *)
NestedBranch(n) ==
    <<I32Const(0),
      Block(BtValTy(TyI32), <<I32Const(1),
          Block(BtIndex(1), <<I32Const(0), I32Const(1),
              If(BtEmpty, <<I32Const(1), Br(n), I32Const(0)>>, <<>>), Unreachable>>),
          I32Const(0)>>),
      LocalSet(0)>>

(* further hand-written programs of the continuation engine *)
ContPrograms ==
    {TestAdd, TestBlock, LoopForever,
     <<I32Const(I32Max), I32Const(1), I32Add>>,
     <<I32Const(I32Min), I32Const(-1), I32Add>>,
     <<I32Const(-1), I32Const(1), I32Add, Unreachable, I32Const(1)>>,
     <<Br(0)>>, <<I32Const(1), Br(1)>>,
     <<Block(BtEmpty, <<Br(2), I32Const(1)>>)>>,
     <<Block(BtIndex(3), <<>>)>>, <<I32Const(1), Loop(BtIndex(2), <<>>)>>,
     <<LocalGet(0), LocalSet(1)>>, <<LocalGet(0), I32Const(1), I32Add>>,
     <<I32Const(3), LocalTee(1), LocalSet(0), LocalGet(1)>>,
     <<I32Const(1), Block(BtIndex(0), <<>>), LocalTee(0)>>,
     <<I32Const(0), I32Const(1), Block(BtIndex(0), <<I32Const(1), I32Add>>), I32Add>>,
     <<I32Const(1), I32Const(0),
       Loop(BtIndex(0), <<I32Const(1), I32Add, LocalTee(0), LocalGet(0), I32Const(2), I32Eq,
                          If(BtIndex(0), <<>>, <<I32Const(5), LocalGet(0), Br(1), Unreachable>>),
                          I32Const(0), I32Add>>),
       I32Add>>,
     NestedBranch(1), NestedBranch(2)}
    \cup {CountedLoop(N) : N \in CountedNs}

(* a Br n out of three nested blocks, and out of a loop nested in a block  *)
VmNestedBranch(n) ==
    <<Block(TyFunc(<<>>, <<>>), <<I32Const(5),
        Block(TyFunc(<<>>, <<TyI32>>), <<I32Const(7),
            Block(TyFunc(<<>>, <<>>), <<I32Const(1), I32Const(2), Br(n), I32Const(3)>>),
            I32Const(4)>>),
        LocalTee(0)>>),
      I32Const(6)>>
VmLoopBranch(n) ==
    <<Block(TyFunc(<<>>, <<TyI32>>), <<I32Const(5),
        Loop(TyFunc(<<TyI32>>, <<>>), <<I32Const(1), I32Add, LocalTee(0), Br(n), Unreachable>>),
        I32Const(4)>>),
      I32Const(6)>>

VmPrograms ==
    {TestAdd, VmTestBlock, VmTestLoop, <<>>,
     VmNestedBranch(0), VmNestedBranch(1), VmNestedBranch(2),
     VmLoopBranch(0), VmLoopBranch(1),
     <<I32Const(I32Max), I32Const(1), I32Add>>,
     <<I32Const(1), Unreachable, I32Const(0), I32Eq>>,
     <<Br(0)>>, <<I32Const(1), Br(1)>>, <<Block(TyFunc(<<>>, <<>>), <<Br(1)>>)>>,
     <<Block(TyFunc(<<>>, <<>>), <<I32Const(1), Br(2)>>)>>,
     <<Block(TyI32, <<>>)>>, <<LocalGet(1)>>,
     <<Block(TyFunc(<<>>, <<>>), <<I32Const(1)>>), I32Const(1), I32Add, LocalTee(0)>>}

SeqsUpTo(S, n) == UNION {[1..m -> S] : m \in 0..n}

(* generated programs: a prefix that pushes operands, one construct with a  *)
(* body of at most len instructions, and a suffix                           *)
GenAtoms ==
    {I32Const(1), I32Eq, LocalTee(0), Br(0), Br(1),
     Block(BtEmpty, <<I32Const(0), Br(1)>>)}
VmGenAtoms ==
    {I32Const(1), I32Eq, LocalTee(0), Br(0),
     Block(TyFunc(<<>>, <<>>), <<>>)}
Constructs(BTs, Bodies) ==
    {Block(bt, b) : bt \in BTs, b \in Bodies}
    \cup {Loop(bt, b) : bt \in BTs, b \in Bodies}
    \cup {If(bt, b, <<>>) : bt \in BTs, b \in Bodies}
    \cup {If(bt, <<Br(0)>>, b) : bt \in BTs, b \in Bodies}
GenPrograms(BTs, Atoms, len) ==
    {pre \o <<c>> \o post :
        pre \in {<<I32Const(1)>>, <<I32Const(1), I32Const(0)>>},
        c \in Constructs(BTs, SeqsUpTo(Atoms, len)),
        post \in {<<>>, <<LocalTee(0)>>}}

ContBlockTypes == {BtEmpty, BtValTy(TyI32), BtIndex(0), BtIndex(1)}
VmBlockTypes == {TyFunc(<<>>, <<>>), TyFunc(<<>>, <<TyI32>>), TyFunc(<<TyI32>>, <<>>)}

(* Instance.locals as the caller sets them *)
InitLocals == {<<>>, <<ValI32(0)>>, <<ValI64(0)>>, <<ValI32(0), ValI32(7)>>}

(* the hand-written programs, and generated ones with bodies up to len;     *)
(* VM::new sets locals to [I32 0]                                           *)
InputsUpTo(len) ==
    {[engine |-> "cont", prog |-> pr, locals |-> l] : pr \in ContPrograms, l \in InitLocals}
    \cup {[engine |-> "cont", prog |-> pr, locals |-> <<ValI32(0)>>] :
             pr \in GenPrograms(ContBlockTypes, GenAtoms, len)}
    \cup {[engine |-> "vm", prog |-> pr, locals |-> <<ValI32(0)>>] :
             pr \in VmPrograms \cup GenPrograms(VmBlockTypes, VmGenAtoms, len)}

----------------------------------------------------------------------------
(* State machine *)

NotRunBefore == [done |-> FALSE]

NumLabels(k) == Cardinality({j \in 1..Len(k) : k[j].tag = "Label"})
NumVmLabels(st) == Len(LabelIndices(st, Len(st)))

InitWith(inputs) ==
    /\ \E inp \in inputs :
        /\ engine = inp.engine
        /\ prog = inp.prog
        /\ locals = inp.locals
        (* run, line 47-48: Config(Plain(&instrs[..], Trap), vec![]) *)
        /\ instr = IF inp.engine = "cont"
                   THEN <<Plain(Slice(<<>>, 0, Len(inp.prog))), Trap>>
                   ELSE <<Trap>>
        (* VM::run, lines 193-197 *)
        /\ cursor = IF inp.engine = "vm" /\ Len(inp.prog) > 0
                    THEN <<[cur |-> 0, len |-> Len(inp.prog), instrs |-> <<>>]>>
                    ELSE <<>>
        /\ types = IF inp.engine = "cont" THEN TypesTable ELSE <<>>
    /\ overflow_checks \in BOOLEAN
    /\ vs = <<>>
    /\ ret = <<>>
    /\ stack = <<>>
    /\ status = "running"
    /\ ev = [kind |-> "init"]
    /\ lastBr = [valid |-> FALSE, stack |-> <<>>, n |-> 0, labels |-> 0, at |-> <<>>]
    /\ trapped = FALSE
    /\ contRun = NotRunBefore
    /\ arg = NoArg
    /\ input = <<>>
    /\ result = NoResult
    /\ call = "none"
    /\ buffer = <<>>

(* what the step about to be taken by the continuation engine does *)
ContEvent ==
    LET h == Head(instr) IN
    CASE h.tag = "Plain" /\ SliceLen(h.es) = 0 -> [kind |-> "seq_end"]
      [] h.tag = "Plain" /\ SliceLen(h.es) # 0 ->
           [kind |-> "exec", op |-> SliceAt(h.es, 0).op,
            at |-> [p |-> h.es.p, i |-> h.es.s], pre |-> vs]
      [] h.tag = "Label" ->
           [kind |-> "label_exit", n |-> h.n, src |-> h.src, entry |-> h.entry,
            loop |-> (h.br # <<>>), body |-> vs, after_empty |-> (ev.kind = "seq_end")]
      [] h.tag = "Breaking" /\ instr[2].tag = "Label" /\ h.i = 0 ->
           [kind |-> "br_done", n |-> instr[2].n, src |-> instr[2].src,
            entry |-> instr[2].entry, loop |-> (instr[2].br # <<>>)]
      [] OTHER -> [kind |-> "unwind"]

(* one iteration of the loop of Instance::run: config = self.step(config) *)
ContStep ==
    /\ engine = "cont" /\ status = "running" /\ ~stop_fn(instr)
    /\ LET r == step
           e == ContEvent
       IN
       /\ instr' = r.instr
       /\ vs' = r.vs
       /\ locals' = r.locals
       /\ status' = r.st
       /\ ev' = e
       /\ lastBr' = IF e.kind = "exec" /\ e.op = "Br"
                    THEN [valid |-> TRUE, stack |-> vs, n |-> SliceAt(Head(instr).es, 0).n,
                          labels |-> NumLabels(instr), at |-> e.at.p]
                    ELSE lastBr
       /\ trapped' = (trapped \/ (e.kind = "exec" /\ e.op = "Unreachable"))
    /\ UNCHANGED <<engine, overflow_checks, prog, types, ret, stack, cursor, contRun>>
    /\ UNCHANGED codec

(* Instance::run, lines 50 and 54: the loop ends on Trap and run returns config.1 *)
ContReturn ==
    /\ engine = "cont" /\ status = "running" /\ stop_fn(instr)
    /\ status' = "returned"
    /\ ret' = vs
    /\ ev' = [kind |-> "return"]
    /\ UNCHANGED <<engine, overflow_checks, prog, types, locals, instr, vs, stack,
                   cursor, lastBr, trapped, contRun>>
    /\ UNCHANGED codec

(* one iteration of the loop of VM::run: cursor.instr() and self.step *)
VmStep ==
    /\ engine = "vm" /\ status = "running" /\ cursor # <<>>
    /\ LET top == Top(cursor) IN
       IF top.cur >= top.len
       THEN (* Level::instr: index out of bounds *)
            /\ status' = "panicked"
            /\ ev' = [kind |-> "fetch"]
            /\ UNCHANGED <<stack, cursor, locals, lastBr, trapped>>
       ELSE LET e == SeqAt(top.instrs)[top.cur + 1]
                r == vm_step(e)
            IN
            /\ stack' = r.stack
            /\ cursor' = r.cursor
            /\ locals' = r.locals
            /\ status' = r.st
            /\ ev' = [kind |-> "exec", op |-> e.op,
                      at |-> [p |-> top.instrs, i |-> top.cur], pre |-> stack]
            /\ lastBr' = IF e.op = "Br"
                         THEN [valid |-> TRUE, stack |-> stack, n |-> e.n,
                               labels |-> NumVmLabels(stack), at |-> top.instrs]
                         ELSE lastBr
            /\ trapped' = (trapped \/ e.op = "Unreachable")
    /\ UNCHANGED <<engine, overflow_checks, prog, types, instr, vs, ret, contRun>>
    /\ UNCHANGED codec

(* VM::run, line 198: cursor.instr() is None, run returns *)
VmReturn ==
    /\ engine = "vm" /\ status = "running" /\ cursor = <<>>
    /\ status' = "returned"
    /\ ev' = [kind |-> "return"]
    /\ UNCHANGED <<engine, overflow_checks, prog, types, locals, instr, vs, ret, stack,
                   cursor, lastBr, trapped, contRun>>
    /\ UNCHANGED codec

(* VM::result, lines 272-278: the top of the stack when it is a value *)
vm_result(st) ==
    IF st # <<>> /\ Top(st).item = "Val" THEN Some(Top(st).val) ELSE None

Next == ContStep \/ ContReturn \/ VmStep \/ VmReturn

Init == InitWith(InputsUpTo(MaxBodyLen))

Spec == Init /\ [][Next]_vars

(* The loops of run() keep stepping until they end: the specification of   *)
(* the termination and recurrence properties, over the hand-written        *)
(* programs and the generated ones with bodies up to MaxLiveBodyLen.       *)
LiveInit == InitWith(InputsUpTo(MaxLiveBodyLen))

LiveSpec == LiveInit /\ [][Next]_vars /\ WF_vars(Next)

----------------------------------------------------------------------------
(* The two engines on the same program: Instance::run, then VM::run on the *)
(* program with each block type replaced by the function type it stands    *)
(* for.                                                                    *)

(* the instructions both engines have, block types that stand for a type   *)
IsSharedOp(op) ==
    op \in {"I32Const", "I32Add", "I32Eq", "LocalGet", "LocalTee", "Br", "Block", "Loop", "If"}
RECURSIVE IsShared(_)
IsShared(es) ==
    \A j \in 1..Len(es) :
        /\ IsSharedOp(es[j].op)
        /\ es[j].op \in {"Block", "Loop"} =>
              (BlockTypeInRange(TypesTable, es[j].bt) /\ IsShared(es[j].es))
        /\ es[j].op = "If" =>
              /\ BlockTypeInRange(TypesTable, es[j].bt)
              /\ IsShared(es[j].es_then) /\ IsShared(es[j].es_else)

RECURSIVE ToVm(_)
ToVm(es) ==
    [j \in 1..Len(es) |->
        CASE es[j].op \in {"Block", "Loop"} ->
               [es[j] EXCEPT !.bt = block_type(TypesTable, @), !.es = ToVm(@)]
          [] es[j].op = "If" ->
               [es[j] EXCEPT !.bt = block_type(TypesTable, @),
                             !.es_then = ToVm(@), !.es_else = ToVm(@)]
          [] OTHER -> es[j]]

(* Vec::last().cloned(), as the tests of cont.rs read the result of run *)
last(v) == IF v = <<>> THEN None ELSE Some(Top(v))

(* VM::new and the start of VM::run, on the program Instance::run was given *)
VmRunSame ==
    /\ engine = "cont" /\ status # "running" /\ IsShared(prog)
    /\ contRun' = [done |-> TRUE, status |-> status, last |-> last(ret), locals |-> locals]
    /\ engine' = "vm"
    /\ prog' = ToVm(prog)
    /\ locals' = <<ValI32(0)>>
    /\ stack' = <<>>
    /\ cursor' = IF Len(prog) > 0
                 THEN <<[cur |-> 0, len |-> Len(prog), instrs |-> <<>>]>>
                 ELSE <<>>
    /\ status' = "running"
    /\ ev' = [kind |-> "init"]
    /\ lastBr' = [valid |-> FALSE, stack |-> <<>>, n |-> 0, labels |-> 0, at |-> <<>>]
    /\ trapped' = FALSE
    /\ UNCHANGED <<overflow_checks, types, instr, vs, ret>>
    /\ UNCHANGED codec

EquivInputs ==
    {inp \in InputsUpTo(MaxBodyLen) :
        inp.engine = "cont" /\ inp.locals = <<ValI32(0)>> /\ IsShared(inp.prog)}

EquivInit == InitWith(EquivInputs)

EquivNext == ContStep \/ ContReturn \/ VmRunSame \/ VmStep \/ VmReturn

EquivSpec == EquivInit /\ [][EquivNext]_vars

----------------------------------------------------------------------------
(* Calls into the binary module *)

(* bit patterns with at most k bits set, and with at most k bits clear *)
RECURSIVE BitPatterns(_)
BitPatterns(k) ==
    IF k = 0 THEN {{}}
    ELSE BitPatterns(k - 1) \cup {pat \cup {b} : pat \in BitPatterns(k - 1), b \in 0..31}

(* leb128.rs tests::test_roundtrip_u32_values and test_roundtrip_i32_values *)
RoundtripU32Values == {Bits(n) : n \in {0, 1, 127, 128, 255, 256, 65535, 65536}} \cup {AllOnes(32)}
RoundtripI32Values ==
    {I32Bits(n) : n \in {0, 1, 127, 128, 255, 256, -1, -2, -127, -128, I32Min, I32Max}}

WordValues ==
    BitPatterns(MaxSetBits) \cup {AllOnes(32) \ pat : pat \in BitPatterns(MaxSetBits)}
    \cup RoundtripU32Values \cup RoundtripI32Values

(* byte slices handed to the LEB128 decoders: generated ones, and the inputs *)
(* of the tests of leb128.rs                                                *)
LebAlphabet == {0, 126, 128, 255}
LebInputs ==
    SeqsUpTo(LebAlphabet, MaxInputLen)
    \cup {<<127>>, <<128, 1>>, <<128, 129, 1>>, <<255, 255, 255, 255, 15>>,
          <<127, 126>>, <<255, 255, 255, 255, 7>>, <<255, 0>>, <<192, 0>>,
          <<128, 128, 128, 128, 120>>, <<255, 255, 255, 255, 127>>}

(* byte slices handed to parse_magic and parse_version *)
HeaderAlphabet == {0, 1, 97, 115, 109}
HeaderInputs ==
    SeqsUpTo(HeaderAlphabet, MaxHeaderLen) \cup {Magic \o Version, Version \o <<255>>}

(* byte slices handed to the decoders of sections.rs: generated ones, every *)
(* byte alone and before a 0, and the inputs of the tests of sections.rs    *)
SectionAlphabet == {0, 1, 3, 11, 65, 96, 127}
SectionInputs ==
    SeqsUpTo(SectionAlphabet, MaxSectionLen)
    \cup {<<b>> : b \in 0..255} \cup {<<b, 0>> : b \in 0..255}
    \cup {<<2, 96, 0, 1, 127, 96, 1, 127, 0>>, <<96, 2, 127, 126, 1, 125>>,
          <<96, 1, 127, 1, 126, 255>>,
          <<2, 0, 1>>, <<3, 0, 1, 2>>,
          <<0, 5>>, <<1, 5, 10>>, <<1, 10, 5>>, <<112, 1, 10, 5>>, <<112, 0, 1>>,
          <<2, 0, 11>>, <<4, 0, 65, 42, 11>>, <<4, 0, 65, 42, 11, 255>>,
          <<4, 0, 11, 65, 42>>, <<5, 0, 65, 42, 11, 0>>, <<3, 0, 65, 42, 11>>,
          <<6, 1, 2, 127, 32, 0, 11>>, <<7, 2, 1, 127, 2, 126, 1, 11>>,
          <<1, 4, 0, 65, 42, 11>>, <<2, 2, 0, 11, 4, 0, 65, 42, 11>>,
          <<8, 0, 65, 128, 128, 128, 128, 120, 11>>,
          <<65, 128, 128, 128, 128, 120, 11>>, <<65, 255, 255, 255, 255, 7, 11>>,
          <<65, 127, 11>>, <<65, 128, 127, 11>>, <<65, 42, 11>>,
          <<0, 11>>, <<1, 11>>, <<2, 64, 11, 11>>, <<3, 64, 11, 11>>, <<4, 64, 11, 11>>,
          <<12, 0, 11>>, <<26, 11>>, <<32, 0, 11>>, <<33, 0, 11>>, <<34, 0, 11>>,
          <<70, 11>>, <<106, 11>>, <<107, 11>>, <<108, 11>>,
          <<1, 255>>, <<1, 1, 255, 11>>, <<65, 1, 26, 255>>,
          <<32, 128, 128, 128, 128, 128>>}

(* byte slices handed to parse_byte and parse_section_header, and the bytes *)
(* of the caller's buffer that precede them                                 *)
LocatedAlphabet == {1, 3, 128}
LocatedInputs == SeqsUpTo(LocatedAlphabet, MaxLocatedLen)
ConsumedPrefixes == SeqsUpTo({0}, MaxConsumed) \cup {Magic \o Version}

(* the sub-slices base[start..end] handed to from_slice: every one of a     *)
(* base of up to MaxBaseLen bytes, and base[10..20] of                      *)
(* tests::test_source_location_from_slice                                   *)
SliceArg(len, start, end) ==
    [ty |-> "slice", bits |-> {}, len |-> len, start |-> start, end |-> end]
SliceArgs ==
    {a \in {SliceArg(len, start, end) : len \in 0..MaxBaseLen, start \in 0..MaxBaseLen,
                                        end \in 0..MaxBaseLen} :
       a.start <= a.end /\ a.end <= a.len}
    \cup {SliceArg(100, 10, 20)}

SectionArg == [ty |-> "section", bits |-> {}]
LocatedArg == [ty |-> "located", bits |-> {}]

CodecInit ==
    /\ engine = "none"
    /\ overflow_checks \in BOOLEAN
    /\ prog = <<>> /\ types = <<>> /\ locals = <<>>
    /\ instr = <<Trap>> /\ vs = <<>> /\ ret = <<>>
    /\ stack = <<>> /\ cursor = <<>>
    /\ status = "returned"
    /\ ev = [kind |-> "init"]
    /\ lastBr = [valid |-> FALSE, stack |-> <<>>, n |-> 0, labels |-> 0, at |-> <<>>]
    /\ trapped = FALSE
    /\ contRun = NotRunBefore
    /\ \/ /\ arg \in {[ty |-> t, bits |-> w] : t \in {"u32", "i32"}, w \in WordValues}
          /\ input = <<>>
          /\ buffer = input
       \/ /\ arg = NoArg
          /\ input \in LebInputs \cup HeaderInputs
          /\ buffer = input
       \/ /\ arg = SectionArg
          /\ input \in SectionInputs
          /\ buffer = input
       \/ /\ arg = LocatedArg
          /\ input \in LocatedInputs
          /\ \E consumed \in ConsumedPrefixes : buffer = consumed \o input
       \/ /\ arg \in SliceArgs
          /\ buffer = [j \in 1..arg.len |-> 0]
          /\ input = SubSeq(buffer, arg.start + 1, arg.end)
    /\ result = NoResult
    /\ call = "none"

(* let encoded = encode_u32(value) *)
EncodeU32 ==
    /\ engine = "none" /\ call = "none" /\ arg.ty = "u32"
    /\ input' = encode_u32(arg.bits)
    /\ buffer' = input'
    /\ call' = "encode_u32"
    /\ UNCHANGED <<machine, arg, result>>

(* let encoded = encode_i32(value) *)
EncodeI32 ==
    /\ engine = "none" /\ call = "none" /\ arg.ty = "i32"
    /\ input' = encode_i32(arg.bits)
    /\ buffer' = input'
    /\ call' = "encode_i32"
    /\ UNCHANGED <<machine, arg, result>>

(* decode_u32(&input), on a caller's slice or on what encode_u32 returned *)
DecodeU32 ==
    /\ engine = "none"
    /\ \/ call = "none" /\ arg = NoArg
       \/ call = "encode_u32"
    /\ result' = decode_u32(input)
    /\ call' = "decode_u32"
    /\ UNCHANGED <<machine, arg, input, buffer>>

(* decode_i32(&input), on a caller's slice or on what encode_i32 returned *)
DecodeI32 ==
    /\ engine = "none"
    /\ \/ call = "none" /\ arg = NoArg
       \/ call = "encode_i32"
    /\ result' = decode_i32(input)
    /\ call' = "decode_i32"
    /\ UNCHANGED <<machine, arg, input, buffer>>

ParseMagic ==
    /\ engine = "none" /\ call = "none" /\ arg = NoArg
    /\ result' = parse_magic(input)
    /\ call' = "parse_magic"
    /\ UNCHANGED <<machine, arg, input, buffer>>

ParseVersion ==
    /\ engine = "none" /\ call = "none" /\ arg = NoArg
    /\ result' = parse_version(input)
    /\ call' = "parse_version"
    /\ UNCHANGED <<machine, arg, input, buffer>>

ParseValtype ==
    /\ engine = "none" /\ call = "none" /\ arg.ty = "section"
    /\ result' = parse_valtype(input)
    /\ call' = "parse_valtype"
    /\ UNCHANGED <<machine, arg, input, buffer>>

ParseReftype ==
    /\ engine = "none" /\ call = "none" /\ arg.ty = "section"
    /\ result' = parse_reftype(input)
    /\ call' = "parse_reftype"
    /\ UNCHANGED <<machine, arg, input, buffer>>

ParseFunctype ==
    /\ engine = "none" /\ call = "none" /\ arg.ty = "section"
    /\ result' = parse_functype(input)
    /\ call' = "parse_functype"
    /\ UNCHANGED <<machine, arg, input, buffer>>

ParseTypeSection ==
    /\ engine = "none" /\ call = "none" /\ arg.ty = "section"
    /\ result' = parse_type_section(input)
    /\ call' = "parse_type_section"
    /\ UNCHANGED <<machine, arg, input, buffer>>

ParseFunctionSection ==
    /\ engine = "none" /\ call = "none" /\ arg.ty = "section"
    /\ result' = parse_function_section(input)
    /\ call' = "parse_function_section"
    /\ UNCHANGED <<machine, arg, input, buffer>>

ParseLimits ==
    /\ engine = "none" /\ call = "none" /\ arg.ty = "section"
    /\ result' = parse_limits(input)
    /\ call' = "parse_limits"
    /\ UNCHANGED <<machine, arg, input, buffer>>

ParseTabletype ==
    /\ engine = "none" /\ call = "none" /\ arg.ty = "section"
    /\ result' = parse_tabletype(input)
    /\ call' = "parse_tabletype"
    /\ UNCHANGED <<machine, arg, input, buffer>>

ParseMemtype ==
    /\ engine = "none" /\ call = "none" /\ arg.ty = "section"
    /\ result' = parse_memtype(input)
    /\ call' = "parse_memtype"
    /\ UNCHANGED <<machine, arg, input, buffer>>

ParseInstructions ==
    /\ engine = "none" /\ call = "none" /\ arg.ty = "section"
    /\ result' = parse_instructions(input)
    /\ call' = "parse_instructions"
    /\ UNCHANGED <<machine, arg, input, buffer>>

ParseCode ==
    /\ engine = "none" /\ call = "none" /\ arg.ty = "section"
    /\ result' = parse_code(input)
    /\ call' = "parse_code"
    /\ UNCHANGED <<machine, arg, input, buffer>>

ParseCodeSection ==
    /\ engine = "none" /\ call = "none" /\ arg.ty = "section"
    /\ result' = parse_code_section(input)
    /\ call' = "parse_code_section"
    /\ UNCHANGED <<machine, arg, input, buffer>>

ParseByte ==
    /\ engine = "none" /\ call = "none" /\ arg.ty = "located"
    /\ result' = parse_byte(input)
    /\ call' = "parse_byte"
    /\ UNCHANGED <<machine, arg, input, buffer>>

ParseSectionHeader ==
    /\ engine = "none" /\ call = "none" /\ arg.ty = "located"
    /\ result' = parse_section_header(input)
    /\ call' = "parse_section_header"
    /\ UNCHANGED <<machine, arg, input, buffer>>

(* with_location(parse_byte)(input) *)
WithLocation ==
    /\ engine = "none" /\ call = "none" /\ arg.ty = "located"
    /\ result' = with_location(input, parse_byte(input))
    /\ call' = "with_location"
    /\ UNCHANGED <<machine, arg, input, buffer>>

(* SourceLocation::from_slice(base, slice) *)
FromSlice ==
    /\ engine = "none" /\ call = "none" /\ arg.ty = "slice"
    /\ result' = from_slice(buffer, input)
    /\ call' = "from_slice"
    /\ UNCHANGED <<machine, arg, input, buffer>>

(* parse_leb128_i32(remaining), the call of line 211, on a caller's slice *)
ParseLeb128I32 ==
    /\ engine = "none" /\ call = "none" /\ arg = NoArg
    /\ result' = parse_leb128_i32(input)
    /\ call' = "parse_leb128_i32"
    /\ UNCHANGED <<machine, arg, input, buffer>>

CodecNext ==
    \/ EncodeU32 \/ EncodeI32 \/ DecodeU32 \/ DecodeI32 \/ ParseMagic \/ ParseVersion
    \/ ParseValtype \/ ParseReftype \/ ParseFunctype \/ ParseTypeSection
    \/ ParseFunctionSection \/ ParseLimits \/ ParseTabletype \/ ParseMemtype
    \/ ParseInstructions \/ ParseCode \/ ParseCodeSection
    \/ ParseByte \/ ParseSectionHeader \/ WithLocation \/ FromSlice
    \/ ParseLeb128I32

CodecSpec == CodecInit /\ [][CodecNext]_vars

----------------------------------------------------------------------------
(* Vocabulary of the properties *)

(* the instruction at a position of the program *)
InstrAt(src) == SeqAt(src.p)[src.i + 1]

(* the construct that statically encloses sequence p at depth n (0 = innermost) *)
EnclosingSrc(p, n) ==
    LET q == SubSeq(p, 1, Len(p) - 2 * n)
    IN [p |-> SubSeq(q, 1, Len(q) - 2), i |-> q[Len(q) - 1]]

(* the arity the specification gives the label of a construct: parameters   *)
(* for a loop, results for a block or an if                                 *)
SpecArity(e, ty) == IF e.op = "Loop" THEN Len(ty.args) ELSE Len(ty.res)

(* what Instance::run hands its caller: run returns Vec<Val>, or unwinds *)
RunOutcomeKind ==
    IF status = "returned" THEN "Values"
    ELSE IF status = "panicked" THEN "Panic"
    ELSE "Running"

BranchDone == engine = "cont" /\ ev.kind = "br_done" /\ status = "running"

(* the continuation is the one that follows the construct at src *)
ResumesAfter(src) ==
    IF src.i + 1 < Len(SeqAt(src.p))
    THEN Head(instr) = Plain(Slice(src.p, src.i + 1, Len(SeqAt(src.p))))
    ELSE IF src.p = <<>> THEN Head(instr) = Trap
    ELSE /\ Head(instr).tag = "Label"
         /\ Head(instr).src = EnclosingSrc(src.p, 0)

LabelGone(src) == \A j \in 1..Len(instr) : instr[j].tag = "Label" => instr[j].src # src

(* the run of [Loop(Empty, [Br 0])], and the start of the body of its loop *)
RunsLoopForever == engine = "cont" /\ prog = LoopForever
AtLoopForeverBody == Head(instr) = Plain(Slice(<<0, 1>>, 0, 1))

(* the body of a Block has just run to its end *)
BlockFellThrough ==
    engine = "cont" /\ ev.kind = "label_exit" /\ InstrAt(ev.src).op = "Block"
BlockParams(src) == Len(block_type(types, InstrAt(src).bt).args)
BlockResults(src) == Len(block_type(types, InstrAt(src).bt).res)

(* a LocalGet, LocalSet or LocalTee whose index is outside locals has just  *)
(* been executed                                                           *)
LocalOutOfRange ==
    /\ ev.kind = "exec" /\ ev.op \in {"LocalGet", "LocalSet", "LocalTee"}
    /\ InstrAt(ev.at).i >= Len(locals)

(* the continuation engine has just executed an If on a stack with an I32  *)
(* on top                                                                  *)
IfExecuted ==
    /\ engine = "cont" /\ ev.kind = "exec" /\ ev.op = "If" /\ status = "running"
    /\ CanPopI32(ev.pre)
IfCond == Top(ev.pre).v
IfArmPath(a) == ArmPath(ev.at.p, ev.at.i, a)

(* the label of a construct whose selected arm was empty has just been left *)
EmptyArmFellThrough ==
    engine = "cont" /\ ev.kind = "label_exit" /\ ev.after_empty

(* the VM has entered an empty arm and asked its cursor for an instruction *)
VmEmptyArmFetched == engine = "vm" /\ ev.kind = "fetch"

(* the run of a counted loop, and the bound N it compares the counter with *)
RunsCountedLoop == engine = "cont" /\ prog \in {CountedLoop(N) : N \in CountedNs}
CountedN == prog[1].es[1].es[5].i

(* LEB128 as a format: the number of leading bytes up to and including the *)
(* first byte without the continuation bit (0 when there is none), and the *)
(* bits the 7-bit groups of those bytes spell, group i at position 7*i     *)
EncodingLen(bytes) ==
    IF \E j \in 1..Len(bytes) : bytes[j] < 128
    THEN CHOOSE j \in 1..Len(bytes) : bytes[j] < 128 /\ \A m \in 1..(j - 1) : bytes[m] >= 128
    ELSE 0
Encoding(bytes) == SubSeq(bytes, 1, EncodingLen(bytes))
AfterEncoding(bytes) == SubSeq(bytes, EncodingLen(bytes) + 1, Len(bytes))
GroupBits(bytes) ==
    UNION {{b + 7 * (j - 1) : b \in {x \in 0..6 : (bytes[j] \div (2 ^ x)) % 2 = 1}} :
              j \in 1..Len(bytes)}

(* the signed reading of an encoding: bit 6 of the last group is the sign   *)
(* and fills every position above that group                               *)
SignedGroupBits(bytes) ==
    LET n == Len(bytes) IN
    (GroupBits(bytes) \cup (IF (7 * n - 1) \in GroupBits(bytes) THEN (7 * n)..31 ELSE {}))
        \cap (0..31)

(* the length of the shortest unsigned and signed encoding of a 32-bit word *)
MinUnsignedLen(bits) ==
    CHOOSE n \in 1..5 : /\ bits \subseteq 0..(7 * n - 1)
                        /\ \A m \in 1..(n - 1) : ~(bits \subseteq 0..(7 * m - 1))
FitsSigned(bits, n) ==
    \/ n = 5
    \/ ((7 * n - 1)..31) \subseteq bits
    \/ ((7 * n - 1)..31) \cap bits = {}
MinSignedLen(bits) ==
    CHOOSE n \in 1..5 : FitsSigned(bits, n) /\ \A m \in 1..(n - 1) : ~FitsSigned(bits, m)

(* the first n bytes all ask for a continuation *)
AllContinue(bytes, n) == \A j \in 1..n : bytes[j] >= 128
Shorter(a, b) == IF a < b THEN a ELSE b

(* the byte of each value type, as the tests of sections.rs expect it *)
ValTypeTable ==
    {<<127, "I32">>, <<126, "I64">>, <<125, "F32">>, <<124, "F64">>, <<123, "V128">>,
     <<112, "FuncRef">>, <<111, "ExternRef">>}
ValTypeBytes == {e[1] : e \in ValTypeTable}
ValTypeName(b) == (CHOOSE e \in ValTypeTable : e[1] = b)[2]

(* the bytes start with a LEB128 u32 of at most five bytes; its value *)
HasU32(bytes) == EncodingLen(bytes) \in 1..5
U32Of(bytes) == GroupBits(Encoding(bytes)) \cap (0..31)

(* the bytes start with a vector of value types: a length, then that many  *)
(* value-type bytes; its items and the bytes that follow it                 *)
IsValTypeVec(bytes) ==
    /\ HasU32(bytes)
    /\ U32Of(bytes) \subseteq 0..30
    /\ BitsValue(U32Of(bytes)) <= Len(AfterEncoding(bytes))
    /\ \A j \in 1..BitsValue(U32Of(bytes)) : AfterEncoding(bytes)[j] \in ValTypeBytes
ValTypeVecItems(bytes) ==
    [j \in 1..BitsValue(U32Of(bytes)) |-> ValTypeName(AfterEncoding(bytes)[j])]
AfterValTypeVec(bytes) ==
    SubSeq(AfterEncoding(bytes), BitsValue(U32Of(bytes)) + 1, Len(AfterEncoding(bytes)))

(* a decoder has been called on the bytes an encoder returned for arg *)
RoundTripU32 == arg.ty = "u32" /\ call = "decode_u32"
RoundTripI32 == arg.ty = "i32" /\ call = "decode_i32"
Decoded == call \in {"decode_u32", "decode_i32"}

----------------------------------------------------------------------------
(* C1: when a Br n has completed, its target is the n-th enclosing label,  *)
(* and the top k values of the operand stack (k the arity of that label)   *)
(* are the top k values the stack held right before the Br, in order.      *)
C1_BranchKeepsTopK ==
    BranchDone =>
        /\ ev.src = EnclosingSrc(lastBr.at, lastBr.n)
        /\ ev.n = SpecArity(InstrAt(ev.src), block_type(types, InstrAt(ev.src).bt))
        /\ Len(vs) >= ev.n
        /\ TakeLast(vs, ev.n) = TakeLast(lastBr.stack, ev.n)

C1_Witness ==
    /\ BranchDone
    /\ ev.n >= 1
    /\ lastBr.n >= 1
    /\ Len(lastBr.stack) > ev.n
    /\ lastBr.stack[Len(lastBr.stack) - ev.n] # Top(lastBr.stack)

(* C2: a Br whose target label was installed by a Block or an If resumes   *)
(* at the instruction right after that construct: the continuation is the  *)
(* rest of the sequence holding the construct, or what encloses it when    *)
(* the construct is last, so nothing between the Br and the end of the     *)
(* construct is executed.                                                  *)
C2_BlockBranchResumesAfter ==
    (BranchDone /\ ~ev.loop) =>
        /\ InstrAt(ev.src).op \in {"Block", "If"}
        /\ ev.src = EnclosingSrc(lastBr.at, lastBr.n)
        /\ ResumesAfter(ev.src)
        /\ LabelGone(ev.src)

C2_Witness ==
    /\ BranchDone /\ ~ev.loop
    /\ lastBr.n >= 1
    /\ ev.src.i + 1 < Len(SeqAt(ev.src.p))
    /\ Len(instr) >= 3

(* C3: a Br whose target is a Loop label re-executes that loop, which      *)
(* enters its body at the first instruction; [Loop(Empty, [Br 0])] never   *)
(* stops and is at the start of its body infinitely often.                 *)
C3_LoopReentry ==
    /\ []((BranchDone /\ ev.loop) =>
            /\ InstrAt(ev.src).op = "Loop"
            /\ Head(instr) = Plain(Slice(ev.src.p, ev.src.i, ev.src.i + 1)))
    /\ []((engine = "cont" /\ ev.kind = "exec" /\ ev.op = "Loop" /\ status = "running") =>
            Head(instr) = Plain(WholeSlice(ArmPath(ev.at.p, ev.at.i, 1))))
    /\ [](RunsLoopForever => (status = "running" /\ ~stop_fn(instr)))
    /\ []<>(RunsLoopForever => AtLoopForeverBody)

C3_Witness == RunsLoopForever /\ BranchDone /\ ev.loop

(* C4 (as amended): when the body of a Block runs to its end, the label is  *)
(* removed and the operand stack is the stack at block entry without the   *)
(* block's parameters, followed by every value the body left; test_block   *)
(* returns [I32 2].                                                        *)
C4_BlockFallThrough ==
    /\ BlockFellThrough =>
        /\ LabelGone(ev.src)
        /\ vs = DropLast(ev.entry, BlockParams(ev.src)) \o ev.body
        /\ Len(ev.body) = BlockResults(ev.src) =>
              Len(vs) = Len(ev.entry) - BlockParams(ev.src) + BlockResults(ev.src)
    /\ (engine = "cont" /\ prog = TestBlock /\ status = "returned") => ret = <<ValI32(2)>>

C4_Witness ==
    /\ BlockFellThrough
    /\ BlockParams(ev.src) >= 1
    /\ BlockResults(ev.src) >= 1
    /\ Len(ev.entry) >= 2
    /\ Len(ev.body) = BlockResults(ev.src)

(* C4 as stated: the stack is the stack at block entry followed by exactly *)
(* r values.                                                               *)
C4_Original ==
    BlockFellThrough =>
        /\ LabelGone(ev.src)
        /\ Len(vs) = Len(ev.entry) + BlockResults(ev.src)
        /\ SubSeq(vs, 1, Len(ev.entry)) = ev.entry

(* C5: after VM::run has finished, no label marker of a construct that has *)
(* been left is on the stack.                                              *)
C5_MarkersRemoved ==
    (engine = "vm" /\ status = "returned") => NumVmLabels(stack) = 0

(* C6: for every N of CountedNs the counted loop started with locals =     *)
(* [I32 0] terminates, with locals[0] = N and the returned stack [I32 N].  *)
C6_CountedLoopTerminates ==
    (RunsCountedLoop /\ ev.kind = "init" /\ locals = <<ValI32(0)>>)
    ~> (RunsCountedLoop /\ status = "returned"
          /\ ret = <<ValI32(CountedN)>> /\ locals = <<ValI32(CountedN)>>)

C6_Witness ==
    /\ engine = "cont" /\ prog = CountedLoop(20) /\ status = "returned"
    /\ ret = <<ValI32(20)>> /\ locals = <<ValI32(20)>>

(* C7: in both engines the label a Loop installs has the number of         *)
(* parameters of its block type as arity, the label a Block or If installs *)
(* the number of results.                                                  *)
C7_LabelArity ==
    (ev.kind = "exec" /\ ev.op \in {"Loop", "Block", "If"} /\ status = "running") =>
        IF engine = "cont"
        THEN instr[2].n = SpecArity(InstrAt(ev.at), block_type(types, InstrAt(ev.at).bt))
        ELSE Top(stack).n = SpecArity(InstrAt(ev.at), InstrAt(ev.at).bt)

(* C8: I32Add on two I32 operands pushes their sum reduced modulo 2^32,    *)
(* for every operand pair.                                                 *)
C8_AddWraps ==
    /\ (engine = "cont" /\ ev.kind = "exec" /\ ev.op = "I32Add"
          /\ CanPopI32(ev.pre) /\ CanPopI32(Pop(ev.pre))) =>
         /\ status = "running"
         /\ vs = Append(Pop(Pop(ev.pre)),
                        ValI32(WrappingAdd(Top(ev.pre).v, Top(Pop(ev.pre)).v)))
    /\ (engine = "vm" /\ ev.kind = "exec" /\ ev.op = "I32Add"
          /\ VmCanPopI32(ev.pre) /\ VmCanPopI32(Pop(ev.pre))) =>
         /\ status = "running"
         /\ stack = Append(Pop(Pop(ev.pre)),
                           ItemVal(ValI32(WrappingAdd(Top(ev.pre).val.v, Top(Pop(ev.pre)).val.v))))

(* C9: once Unreachable has been executed the run ends with a trap as its  *)
(* outcome, which differs from a normal completion.                        *)
C9_UnreachableTraps ==
    (engine = "cont" /\ trapped /\ status # "running") => RunOutcomeKind = "Trap"

(* C10: a Br n with n greater than the number of live labels ends the run  *)
(* with a trap as its outcome, in both engines.                            *)
C10_BranchOutOfRangeTraps ==
    (lastBr.valid /\ lastBr.n > lastBr.labels /\ status # "running") =>
        RunOutcomeKind = "Trap"

(* C11: a LocalGet, LocalSet or LocalTee whose index is not below the      *)
(* number of locals ends the run with a trap as its outcome, a value       *)
(* returned to the caller; the engine does not panic.                      *)
C11_LocalIndexTraps ==
    (LocalOutOfRange /\ status # "running") => RunOutcomeKind = "Trap"

(* C12: the continuation engine's If pops exactly one I32 c and enters     *)
(* exactly one arm, the then arm iff c is non-zero and the else arm iff c  *)
(* is 0, under a label that resumes after the If (no loop continuation)    *)
(* and whose arity is the result arity of the If's block type.             *)
C12_IfSelectsArm ==
    IfExecuted =>
        /\ Head(instr) = Plain(WholeSlice(IfArmPath(IF IfCond # 0 THEN 1 ELSE 2)))
        /\ \A j \in 1..Len(instr) :
              instr[j].tag = "Plain" => instr[j].es.p # IfArmPath(IF IfCond # 0 THEN 2 ELSE 1)
        /\ instr[2].tag = "Label" /\ instr[2].src = ev.at
        /\ instr[2].br = <<>>
        /\ instr[2].n = Len(block_type(types, InstrAt(ev.at).bt).res)
        /\ instr[2].vs \o vs = Pop(ev.pre)

C12_Witness ==
    /\ IfExecuted /\ IfCond = 0
    /\ InstrAt(ev.at).es_then # <<>> /\ InstrAt(ev.at).es_else # <<>>
    /\ Len(block_type(types, InstrAt(ev.at).bt).res) = 1
    /\ Len(block_type(types, InstrAt(ev.at).bt).args) = 1

(* C13: an If whose selected arm is empty, and a Block whose body is       *)
(* empty, falls through at once: the label is removed, the operand stack   *)
(* is the one the construct found (for an If, after the condition was      *)
(* popped) and execution continues after the construct; in the             *)
(* continuation engine and in the cursor-stack VM, which does not stop on  *)
(* the empty arm.                                                          *)
C13_EmptyArmFallsThrough ==
    /\ EmptyArmFellThrough =>
          /\ status = "running"
          /\ vs = ev.entry
          /\ LabelGone(ev.src)
          /\ ResumesAfter(ev.src)
    /\ VmEmptyArmFetched => status # "panicked"

(* C14: for every u32 x, decode_u32(encode_u32(x)) succeeds, returns x and *)
(* leaves no remaining input.                                              *)
C14_U32RoundTrip ==
    RoundTripU32 =>
        /\ result.ok
        /\ result.value = arg.bits
        /\ result.remaining = <<>>

C14_Witness ==
    /\ RoundTripU32 /\ result.ok
    /\ arg.bits = AllOnes(32) \ {7}
    /\ Len(input) = 5

(* C15: for every i32 v, negative ones, i32::MIN and i32::MAX included,    *)
(* decode_i32(encode_i32(v)) succeeds, returns v and leaves no remaining   *)
(* input.                                                                  *)
C15_I32RoundTrip ==
    RoundTripI32 =>
        /\ result.ok
        /\ result.value = arg.bits
        /\ result.remaining = <<>>

(* C16: encode_u32(x) is the shortest unsigned LEB128 encoding of x (one   *)
(* byte for 0..127, FF FF FF FF 0F for u32::MAX); encode_i32(v) is the     *)
(* shortest signed LEB128 encoding of v and never longer than 5 bytes      *)
(* (encode_i32(0) = [00], encode_i32(-2) = [7E]).                          *)
C16_MinimalEncoding ==
    /\ call = "encode_u32" =>
         /\ EncodingLen(input) = Len(input)
         /\ GroupBits(input) = arg.bits
         /\ Len(input) = MinUnsignedLen(arg.bits)
         /\ arg.bits \subseteq 0..6 => Len(input) = 1
         /\ arg.bits = AllOnes(32) => input = <<255, 255, 255, 255, 15>>
    /\ call = "encode_i32" =>
         /\ EncodingLen(input) = Len(input)
         /\ Len(input) <= 5
         /\ SignedGroupBits(input) = arg.bits
         /\ Len(input) = MinSignedLen(arg.bits)
         /\ arg.bits = I32Bits(0) => input = <<0>>
         /\ arg.bits = I32Bits(-2) => input = <<126>>

(* C17: decode_u32 accepts every well-formed encoding of at most 5 bytes,  *)
(* minimal or padded with redundant zero groups: it returns the value the  *)
(* groups spell and consumes exactly the bytes of the encoding (80 00 and  *)
(* 80 80 80 80 00 decode to 0, FF 00 to 127).                              *)
C17_AcceptsNonMinimal ==
    (call = "decode_u32" /\ EncodingLen(input) \in 1..5
        /\ GroupBits(Encoding(input)) \subseteq 0..31) =>
        /\ result.ok
        /\ result.value = GroupBits(Encoding(input))
        /\ result.remaining = AfterEncoding(input)
        /\ input \in {<<128, 0>>, <<128, 128, 128, 128, 0>>} => result.value = {}
        /\ input = <<255, 0>> => result.value = Bits(127)

C17_Witness ==
    /\ call = "decode_u32" /\ result.ok
    /\ EncodingLen(input) = 5
    /\ result.value = Bits(127)
    /\ MinUnsignedLen(result.value) = 1
    /\ result.remaining = <<255>>

C19_SignExtension ==
    (call = "decode_i32" /\ result.ok) =>
        /\ result.remaining = AfterEncoding(input)
        /\ result.value = SignedGroupBits(Encoding(input))
        /\ input = <<126>> => result = NomOk(<<>>, I32Bits(-2))

(* C20: parse_magic succeeds iff the first 4 bytes are 00 61 73 6D and     *)
(* parse_version iff they are 01 00 00 00; on success the remaining input  *)
(* is input[4..], on failure the error carries the whole input.            *)
C20_MagicAndVersion ==
    /\ call = "parse_magic" =>
         /\ result.ok <=> (Len(input) >= 4 /\ SubSeq(input, 1, 4) = <<0, 97, 115, 109>>)
         /\ result.ok => result.remaining = SubSeq(input, 5, Len(input))
         /\ ~result.ok => result.input = input
    /\ call = "parse_version" =>
         /\ result.ok <=> (Len(input) >= 4 /\ SubSeq(input, 1, 4) = <<1, 0, 0, 0>>)
         /\ result.ok => result.remaining = SubSeq(input, 5, Len(input))
         /\ ~result.ok => result.input = input

C20_Witness ==
    /\ call = "parse_magic" /\ result.ok
    /\ Len(input) = 5
    /\ result.remaining = <<1>>

(* C21: decode failures are reported with the kind the specification      *)
(* names, and the kinds tell the causes apart: a wrong magic gives          *)
(* InvalidMagic, a wrong version InvalidVersion, a bad type tag             *)
(* TypeMismatch, an unknown opcode InvalidInstruction, truncated input      *)
(* UnexpectedEOF, a too-wide LEB128 Overflow; each error carries a          *)
(* SourceLocation.                                                          *)
C21_ErrorKinds ==
    LET WrongMagic == call = "parse_magic" /\ Len(input) >= 4 /\ SubSeq(input, 1, 4) # Magic
        WrongVersion ==
            call = "parse_version" /\ Len(input) >= 4 /\ SubSeq(input, 1, 4) # Version
        BadTypeTag == call = "parse_functype" /\ input # <<>> /\ input[1] # 96
        UnknownOpcode == call = "parse_instructions" /\ input # <<>> /\ input[1] = 255
        Truncated ==
            /\ call \in {"decode_u32", "decode_i32", "parse_magic", "parse_version",
                         "parse_functype", "parse_instructions", "parse_type_section",
                         "parse_code"}
            /\ input = <<>>
        TooWide == call \in {"decode_u32", "decode_i32"} /\ Len(input) >= 5 /\ AllContinue(input, 5)
        Fails(kind) ==
            /\ ~result.ok
            /\ result.code = kind
            /\ "location" \in DOMAIN result
    IN
    /\ WrongMagic => Fails("InvalidMagic")
    /\ WrongVersion => Fails("InvalidVersion")
    /\ BadTypeTag => Fails("TypeMismatch")
    /\ UnknownOpcode => Fails("InvalidInstruction")
    /\ Truncated => Fails("UnexpectedEOF")
    /\ TooWide => Fails("Overflow")

(* C22: parse_valtype maps 7F, 7E, 7D, 7C, 7B, 70, 6F to I32, I64, F32,     *)
(* F64, V128, FuncRef, ExternRef, consuming exactly one byte, and returns   *)
(* an error for every other byte; parse_reftype accepts only 70 and 6F.     *)
C22_ValTypeBytes ==
    /\ call = "parse_valtype" =>
         IF input # <<>> /\ input[1] \in {127, 126, 125, 124, 123, 112, 111}
         THEN result = NomOk(Tail(input), ValTypeName(input[1]))
         ELSE ~result.ok /\ ~Unwinds(result)
    /\ call = "parse_reftype" =>
         IF input # <<>> /\ input[1] \in {112, 111}
         THEN result = NomOk(Tail(input), ValTypeName(input[1]))
         ELSE ~result.ok /\ ~Unwinds(result)

C22_Witness ==
    /\ call = "parse_valtype"
    /\ input = <<123, 0>>
    /\ result = NomOk(<<0>>, "V128")

(* C23: parse_functype accepts exactly the encodings that start with tag    *)
(* 60 followed by two length-prefixed vectors of value types, and returns   *)
(* them as params and results in input order; any other leading tag is an   *)
(* error, TypeMismatch, with no input consumed; parse_type_section on       *)
(* 02 60 00 01 7F 60 01 7F 00 yields [] -> [I32] and [I32] -> [].           *)
C23_FuncType ==
    /\ call = "parse_functype" =>
         IF /\ input # <<>> /\ input[1] = 96
            /\ IsValTypeVec(Tail(input))
            /\ IsValTypeVec(AfterValTypeVec(Tail(input)))
         THEN result = NomOk(AfterValTypeVec(AfterValTypeVec(Tail(input))),
                             FuncType(ValTypeVecItems(Tail(input)),
                                      ValTypeVecItems(AfterValTypeVec(Tail(input)))))
         ELSE ~result.ok /\ ~Unwinds(result)
    /\ (call = "parse_functype" /\ input # <<>> /\ input[1] # 96) =>
         result = NomErr(input, "TypeMismatch")
    /\ (call = "parse_type_section" /\ input = <<2, 96, 0, 1, 127, 96, 1, 127, 0>>) =>
         result = NomOk(<<>>, <<FuncType(<<>>, <<"I32">>), FuncType(<<"I32">>, <<>>)>>)

(* C24: parse_code succeeds only when the locals and the body consume       *)
(* exactly the size bytes the entry declares: an end opcode before the size *)
(* bytes are used up, or a body that would run past them, is a decode error *)
(* (InvalidSectionSize); on success the remaining input starts right after  *)
(* the size bytes, and 04 00 41 2A 0B gives Code{locals: [], body:          *)
(* [I32Const 42]} with no trailing input.                                   *)
C24_CodeSize ==
    (/\ call = "parse_code"
     /\ HasU32(input)
     /\ U32Of(input) \subseteq 0..30
     /\ BitsValue(U32Of(input)) <= Len(AfterEncoding(input))) =>
        LET size == BitsValue(U32Of(input))
            entry == SubSeq(AfterEncoding(input), 1, size)
            after == SubSeq(AfterEncoding(input), size + 1, Len(AfterEncoding(input)))
            locals_vec == parse_vec("parse_locals", entry)
            body == parse_expr(locals_vec.remaining)
            Exact == locals_vec.ok /\ body.ok /\ body.remaining = <<>>
            UnderRead == locals_vec.ok /\ body.ok /\ body.remaining # <<>>
            OverRead == locals_vec.ok /\ ~body.ok /\ body.code = "Eof"
        IN
        /\ result.ok => Exact /\ result.remaining = after
        /\ (UnderRead \/ OverRead) => ~result.ok
        /\ input = <<4, 0, 65, 42, 11>> =>
             result = NomOk(<<>>, Code(<<>>, Expr(<<I32Const(I32Bits(42))>>)))

(* C25: every Limits value produced by parse_limits, parse_tabletype and    *)
(* parse_memtype that has a max satisfies min <= max.                       *)
C25_LimitsOrdered ==
    (call \in {"parse_limits", "parse_tabletype", "parse_memtype"} /\ result.ok) =>
        LET limits == IF call = "parse_limits" THEN result.value ELSE result.value.limits
        IN limits.max.some => AsUsize(limits.min) <= AsUsize(limits.max.v)

(* C26: parse_instructions decodes every opcode of the minimum opcode       *)
(* table (00 Unreachable, 01 Nop, 02 Block, 03 Loop, 04 If, 0C Br, 1A Drop, *)
(* 20 LocalGet, 21 LocalSet, 22 LocalTee, 41 I32Const, 46 I32Eq, 6A I32Add, *)
(* 6B I32Sub, 6C I32Mul); 0B ends the sequence and is not emitted.          *)
C26_OpcodeTable ==
    LET OneInstr ==
            {<<<<0, 11>>, "Unreachable">>, <<<<1, 11>>, "Nop">>,
             <<<<2, 64, 11, 11>>, "Block">>, <<<<3, 64, 11, 11>>, "Loop">>,
             <<<<4, 64, 11, 11>>, "If">>, <<<<12, 0, 11>>, "Br">>,
             <<<<26, 11>>, "Drop">>, <<<<32, 0, 11>>, "LocalGet">>,
             <<<<33, 0, 11>>, "LocalSet">>, <<<<34, 0, 11>>, "LocalTee">>,
             <<<<65, 42, 11>>, "I32Const">>, <<<<70, 11>>, "I32Eq">>,
             <<<<106, 11>>, "I32Add">>, <<<<107, 11>>, "I32Sub">>,
             <<<<108, 11>>, "I32Mul">>}
    IN
    call = "parse_instructions" =>
        /\ \A e \in OneInstr :
             input = e[1] =>
                 /\ result.ok
                 /\ result.remaining = <<>>
                 /\ Len(result.value) = 1
                 /\ result.value[1].op = e[2]
        /\ (input # <<>> /\ input[1] = 11) => result = NomOk(Tail(input), <<>>)

(* C27: when parse_instructions meets an unknown opcode, the location of    *)
(* its error is the position of that opcode byte, at any index of the       *)
(* sequence (here after instructions without immediates).                   *)
C27_OpcodeLocation ==
    \A j \in 1..Len(input) :
        (/\ call = "parse_instructions"
         /\ input[j] = 255
         /\ \A n \in 1..(j - 1) : input[n] \in {1, 26, 106, 107, 108}) =>
            /\ ~result.ok
            /\ from_slice(input, result.input).offset = j - 1

(* C28: for every input parse_type_section, parse_function_section,         *)
(* parse_code_section and parse_code accept, every strict prefix of the     *)
(* consumed bytes makes the same decoder return an error value; and no      *)
(* decoder panics on any byte sequence.                                     *)
C28_Totality ==
    LET Decode(bytes) ==
            CASE call = "parse_type_section" -> parse_type_section(bytes)
              [] call = "parse_function_section" -> parse_function_section(bytes)
              [] call = "parse_code_section" -> parse_code_section(bytes)
              [] call = "parse_code" -> parse_code(bytes)
    IN
    /\ (call \notin {"none", "from_slice"}) => ~Unwinds(result)
    /\ (/\ call \in {"parse_type_section", "parse_function_section",
                     "parse_code_section", "parse_code"}
        /\ result.ok) =>
           \A n \in 0..(Len(input) - Len(result.remaining) - 1) :
               /\ ~Decode(SubSeq(input, 1, n)).ok
               /\ ~Unwinds(Decode(SubSeq(input, 1, n)))

(* C29: the location attached to a decoded value is its byte range in the   *)
(* original buffer: offset is the absolute position of its first byte and   *)
(* length the number of bytes it occupies, so a value decoded after k bytes *)
(* were consumed has offset k, and offset + length is at most the length of *)
(* the buffer.                                                              *)
C29_AbsoluteLocations ==
    LET k == Len(buffer) - Len(input)
        Spans(location, first, n) ==
            /\ location = SourceLocation(k + first, n)
            /\ location.offset + location.length <= Len(buffer)
    IN
    /\ (call = "parse_byte" /\ result.ok) => Spans(result.value.location, 0, 1)
    /\ (call = "with_location" /\ result.ok) => Spans(result.value.location, 0, 1)
    /\ (call \in {"parse_magic", "parse_version"} /\ result.ok) =>
           Spans(result.value.location, 0, 4)
    /\ (call = "parse_section_header" /\ result.ok) =>
           /\ Spans(result.value[1].location, 0, 1)
           /\ Spans(result.value[2].location, 1, EncodingLen(Tail(input)))

(* C30: SourceLocation::from_slice(base, slice), for slice a sub-slice of   *)
(* base, returns offset = the index in base of the first byte of slice and  *)
(* length = slice.len(); for a base of 100 bytes and base[10..20] it        *)
(* returns offset 10 and length 10.                                         *)
C30_FromSlice ==
    (call = "from_slice" /\ arg.start < arg.end) =>
        /\ result = SourceLocation(arg.start, arg.end - arg.start)
        /\ (arg.len = 100 /\ arg.start = 10 /\ arg.end = 20) => result = SourceLocation(10, 10)

(* C31: in the cursor-stack VM, executing Unreachable aborts the run: the  *)
(* step that executes it leaves the stack and the locals as they were, and *)
(* after it no instruction is executed and the stack and the locals do not *)
(* change.                                                                 *)
C31_VmUnreachableAborts ==
    [][engine = "vm" =>
         /\ (ev'.kind = "exec" /\ ev'.op = "Unreachable") =>
                (stack' = stack /\ locals' = locals)
         /\ trapped => (ev'.kind # "exec" /\ stack' = stack /\ locals' = locals)]_vars

(* the VM has just executed a Br; the label marker that is the n-th from    *)
(* the top of a stack, and what pop_label returned for the stack the Br    *)
(* found                                                                   *)
VmBrExecuted == engine = "vm" /\ ev.kind = "exec" /\ ev.op = "Br"
NthLabelFromTop(st, n) ==
    CHOOSE j \in 1..Len(st) :
        /\ st[j].item = "Label"
        /\ Cardinality({m \in (j + 1)..Len(st) : st[m].item = "Label"}) = n
VmBrTarget == NthLabelFromTop(ev.pre, lastBr.n)
VmBrPopped == pop_label(ev.pre, lastBr.n)
TopAreVals(st, k) ==
    /\ k <= Len(st)
    /\ \A j \in (Len(st) - k + 1)..Len(st) : st[j].item = "Val"

(* C32: pop_label(n), for n below the number of label markers on a stack   *)
(* whose top k items are values (k the arity of the n-th marker L from the *)
(* top), returns L and those k values in their order and leaves exactly    *)
(* the items below L on the stack, also when further markers lie below L.  *)
C32_PopLabel ==
    (VmBrExecuted /\ lastBr.n < lastBr.labels
        /\ TopAreVals(ev.pre, ev.pre[VmBrTarget].n)) =>
        /\ VmBrPopped.ok
        /\ VmBrPopped.label = ev.pre[VmBrTarget]
        /\ VmBrPopped.vals = TakeLast(ev.pre, ev.pre[VmBrTarget].n)
        /\ VmBrPopped.stack = SubSeq(ev.pre, 1, VmBrTarget - 1)

(* the cursor of a VM that is about to execute the instruction at src: one  *)
(* frame for each sequence on the path to src                               *)
CursorAt(src) ==
    [j \in 1..((Len(src.p) \div 2) + 1) |->
        [cur |-> IF 2 * j - 1 <= Len(src.p) THEN src.p[2 * j - 1] ELSE src.i,
         len |-> Len(SeqAt(SubSeq(src.p, 1, 2 * (j - 1)))),
         instrs |-> SubSeq(src.p, 1, 2 * (j - 1))]]

(* the label the Br selected, and the frames of the Br's cursor down to    *)
(* the construct that installed it; the Br sits inside that construct      *)
VmBrLabel == ev.pre[VmBrTarget]
VmBrConstructFrames == SubSeq(CursorAt(ev.at), 1, Len(VmBrLabel.pos))
VmBrInsideTarget ==
    /\ Len(VmBrLabel.pos) < Len(CursorAt(ev.at))
    /\ CursorPos(VmBrConstructFrames) = VmBrLabel.pos

(* C33: after a Br n of the VM to a label installed by a Block or an If    *)
(* the cursor points at the instruction that follows the construct, the    *)
(* frames that are finished thereby being popped; after a Br n to a Loop   *)
(* label the cursor is at that loop, whose body is entered at its first    *)
(* instruction.  The Br sits one or more frames deeper than the construct. *)
C33_VmBranchResumes ==
    (VmBrExecuted /\ lastBr.n < lastBr.labels
        /\ TopAreVals(ev.pre, VmBrLabel.n) /\ VmBrInsideTarget) =>
        /\ status = "running"
        /\ VmBrLabel.kind = "Empty" => cursor = CursorNext(VmBrConstructFrames)
        /\ VmBrLabel.kind = "Continuation" =>
              \/ cursor = VmBrConstructFrames
              \/ cursor = Append(VmBrConstructFrames,
                                 Level(ArmPath(Top(VmBrConstructFrames).instrs,
                                               Top(VmBrConstructFrames).cur, 1)))

(* the VM has just entered a Loop whose block type has parameters, on a     *)
(* stack that held them                                                    *)
VmLoopEntered ==
    /\ engine = "vm" /\ ev.kind = "exec" /\ ev.op = "Loop" /\ status = "running"
    /\ Len(InstrAt(ev.at).bt.args) >= 1
    /\ TopAreVals(ev.pre, Len(InstrAt(ev.at).bt.args))

(* C34: in the VM the body of a Loop with parameters finds, as the operands *)
(* it can pop, the parameter values pushed before the loop was entered;    *)
(* the program of test_loop does not panic and, once run has returned,     *)
(* result() is Some(I32 2).                                                *)
C34_VmLoopParams ==
    /\ VmLoopEntered =>
          /\ TopAreVals(stack, Len(InstrAt(ev.at).bt.args))
          /\ TakeLast(stack, Len(InstrAt(ev.at).bt.args))
                = TakeLast(ev.pre, Len(InstrAt(ev.at).bt.args))
    /\ (engine = "vm" /\ prog = VmTestLoop) =>
          /\ status # "panicked"
          /\ status = "returned" => vm_result(stack) = Some(ValI32(2))

(* C35: at the start of every step of the VM each frame of the cursor has  *)
(* an index below the length of its sequence, so the fetch of the current  *)
(* instruction is in bounds; also right after a Block, a Loop or an If arm *)
(* with an empty body has been entered.                                    *)
C35_VmCursorInBounds ==
    engine = "vm" =>
        /\ status = "running" =>
              \A j \in 1..Len(cursor) :
                  /\ cursor[j].cur < cursor[j].len
                  /\ cursor[j].len = Len(SeqAt(cursor[j].instrs))
        /\ ev.kind # "fetch"

(* C36: on a program of the shared instructions, started with equal        *)
(* locals, the VM's run ends as the continuation engine's run did          *)
(* (returned or not), and when both have returned result() equals last()   *)
(* of the returned values and the locals are equal.                        *)
C36_EnginesAgree ==
    (contRun.done /\ status # "running") =>
        /\ (status = "returned") <=> (contRun.status = "returned")
        /\ (status = "returned" /\ contRun.status = "returned") =>
              /\ vm_result(stack) = contRun.last
              /\ locals = contRun.locals

(* the outcomes of decode_i32 and of parse_leb128_i32 on the same bytes:   *)
(* both fail, or both succeed with the same value and the same remaining   *)
(* input                                                                   *)
SameDecoding(d, p) ==
    /\ d.ok <=> p.ok
    /\ d.ok => (d.value = p.value.value /\ d.remaining = p.remaining)

(* C37: for every byte sequence leb128::decode_i32 and parse_leb128_i32    *)
(* either both fail or both succeed with the same i32 and the same number  *)
(* of bytes consumed, 5-byte encodings of negative values included.        *)
C37_DecodersAgree ==
    /\ (call = "decode_i32" /\ arg = NoArg) =>
          SameDecoding(result, parse_leb128_i32(input))
    /\ call = "parse_leb128_i32" => SameDecoding(decode_i32(input), result)

(* C38: a completed Br of the continuation engine to a label L leaves the  *)
(* operand stack equal to the values that lay below the construct that     *)
(* installed L (the stack that construct found, without its parameters),   *)
(* in their order, followed by the top k values the Br found (k the arity  *)
(* of L); the other values pushed inside the construct and the values the  *)
(* labels in between had saved are gone.                                   *)
C38_BranchStack ==
    BranchDone =>
        /\ Len(lastBr.stack) >= ev.n
        /\ vs = DropLast(ev.entry, BlockParams(ev.src)) \o TakeLast(lastBr.stack, ev.n)

C38_Witness ==
    /\ BranchDone
    /\ lastBr.n >= 1
    /\ ev.n >= 1
    /\ BlockParams(ev.src) >= 1
    /\ Len(ev.entry) > BlockParams(ev.src)
    /\ Len(lastBr.stack) > ev.n

(* C39: during a run of the continuation engine the number of locals never *)
(* changes, a step changes locals only when it executes LocalSet i or      *)
(* LocalTee i and then only locals[i], and the types table and the         *)
(* instruction sequence are never modified.                                *)
C39_LocalsFrame ==
    [][(engine = "cont" /\ engine' = "cont") =>
         /\ Len(locals') = Len(locals)
         /\ types' = types
         /\ prog' = prog
         /\ locals' # locals =>
               /\ ev'.kind = "exec" /\ ev'.op \in {"LocalSet", "LocalTee"}
               /\ \A j \in 1..Len(locals) :
                     j # InstrAt(ev'.at).i + 1 => locals'[j] = locals[j]]_vars

C39_Witness ==
    /\ engine = "cont" /\ status = "running"
    /\ ev.kind = "exec" /\ ev.op \in {"LocalSet", "LocalTee"}
    /\ InstrAt(ev.at).i = 1
    /\ Len(locals) = 2
    /\ locals[2] = Top(ev.pre)
    /\ locals[1] # locals[2]

====
